---- MODULE Spec2Model ----
(***************************************************************************)
(* Booking availability, equipment capacity and the session-credit ledger  *)
(* of the Jump4Fun booking backend (Django).  The persistent store is the  *)
(* state; every request handler, admin action, management command and      *)
(* model signal is an action translated from its Python source.            *)
(*                                                                         *)
(* Time is counted in whole hours since an arbitrary epoch.                *)
(***************************************************************************)
EXTENDS Integers, Sequences, FiniteSets, TLC

(***************************************************************************)
(* Bounds of the model.                                                    *)
(***************************************************************************)
\* Largest total_sessions / sessions_used an admin types into the card form.
MaxSessions == 2
\* Largest number of SessionAttendance rows that exist at the same time.
MaxBookings == 2

NoCard == "none"
NoCat == "none"
NoMax == -1

Max(a, b) == IF a >= b THEN a ELSE b
Min(a, b) == IF a <= b THEN a ELSE b

(***************************************************************************)
(* Fixed data of the store: members, the one session card, the schedule,   *)
(* the equipment inventory (unchanged throughout) and the size types.      *)
(***************************************************************************)
Members == {"m1", "m2", "m3"}
Cards == {"c1"}
CardOwner == [c \in Cards |-> "m1"]

\* A member whose shoe size was typed in as a text int() does not accept.
UnsizedMembers == {"m4"}
AllMembers == Members \cup UnsizedMembers

\* Member.shoe_size is a CharField: a string, here a sequence of characters.
shoe_size == [m \in AllMembers |-> IF m = "m1" THEN <<"3", "8">>
                                   ELSE IF m = "m2" THEN <<"4", "2">>
                                   ELSE IF m = "m3" THEN <<"4", "4">> ELSE <<"3", "8", "x">>]

\* s1 is the schedule the members book; s2 is a second schedule whose
\* max_capacity is set (one participant), asked about by the capacity queries.
Schedules == {"s1"}
CappedSchedules == {"s2"}
AllSchedules == Schedules \cup CappedSchedules
sched_title == [s \in AllSchedules |-> IF s = "s1" THEN "T1" ELSE "T2"]
booking_opens_days_before == [s \in AllSchedules |-> 1]
booking_closes_hours_before == [s \in AllSchedules |-> 2]
max_capacity == [s \in AllSchedules |-> IF s = "s1" THEN NoMax ELSE 1]

\* The date-times a request or an import row can carry: the schedule's next
\* occurrence and the same hour a day later.  With the window fields above the
\* first one is bookable from hour 0 to hour 22 and the second from hour 24 to
\* hour 46.
Dates == {24, 48}
Titles == {"T1"}
AllTitles == {sched_title[s] : s \in AllSchedules}
\* The instants at which requests arrive, after hour 0.
Times == {22, 23, 24, 25}

HoursPerDay == 24

SIZE_CHOICES == {"S", "M", "L", "XL"}
EQUIPMENT_STATUS_CHOICES == {"available", "maintenance", "broken"}
Equipment == {"e1", "e2", "e3", "e4", "e5", "e6"}
equipment_size == [e \in Equipment |-> IF e \in {"e1", "e2", "e5"} THEN "M"
                                       ELSE IF e = "e6" THEN "XL" ELSE "L"]
equipment_status == [e \in Equipment |-> IF e = "e4" THEN "maintenance"
                                         ELSE IF e = "e5" THEN "broken" ELSE "available"]

\* The size classes the admin configured; class M starts one size below the
\* hardcoded range, the XL class is switched off.
SizeTypes == {[name |-> "M", min_shoe_size |-> 36, max_shoe_size |-> 41, is_active |-> TRUE],
              [name |-> "L", min_shoe_size |-> 42, max_shoe_size |-> 46, is_active |-> TRUE],
              [name |-> "XL", min_shoe_size |-> 47, max_shoe_size |-> 50, is_active |-> FALSE]}

\* The equipment categories the admin configured: a size class and a spring
\* class each; the category of the switched-off XL class is switched off too.
EquipmentCategories ==
    {[name |-> "Medium", size_type |-> "M", spring_type |-> "Standaard", is_active |-> TRUE],
     [name |-> "Large", size_type |-> "L", spring_type |-> "Standaard", is_active |-> TRUE],
     [name |-> "Extra Large", size_type |-> "XL", spring_type |-> "HD", is_active |-> FALSE]}

\* Member.override_category: the admin set the third member's to Medium, although
\* the member's shoe size (44) is of size class L.
override_category == [m \in Members |-> IF m = "m3" THEN "Medium" ELSE NoCat]

\* The model fields of Member; reading any other attribute of a member raises
\* AttributeError.
MemberAttributes == {"email", "first_name", "last_name", "date_of_birth", "shoe_size",
                     "phone", "insurance_status", "override_category", "notes",
                     "created_at", "updated_at"}
AttributeError == "AttributeError"

STATUS_CHOICES == {"active", "expired", "completed"}

(***************************************************************************)
(* State.                                                                  *)
(***************************************************************************)
VARIABLES
    now,        \* timezone.now(), in hours
    cards,      \* SessionCard rows: card -> [total, used, status]
    atts,       \* SessionAttendance rows: pk -> row
    is_active,  \* SessionSchedule.is_active, per schedule
    reqs,       \* requests in flight, between their checks and their write
    gate,       \* the last call of the booking window gate and what it returned
    call,       \* the last call of a read-only query and what it returned
    event_bookings,         \* BusinessEventBooking rows, in order of creation
    company_booking_email,  \* request.session['company_booking_email'], per browser
    ev          \* what the last handler did (observation only)

vars == <<now, cards, atts, is_active, reqs, gate, call, event_bookings,
          company_booking_email, ev>>

(***************************************************************************)
(* cards/models.py: the card's derived properties and its save().          *)
(***************************************************************************)
sessions_remaining(card) == Max(0, card.total - card.used)

is_valid(card) == card.status = "active" /\ sessions_remaining(card) > 0

\* SessionCard.save: the status follows the counters in one direction only.
SessionCard_save(card) ==
    IF card.used >= card.total THEN [card EXCEPT !.status = "completed"] ELSE card

\* SessionCard.use_session on a valid card (the caller tests is_valid).
use_session(card) ==
    LET c1 == [card EXCEPT !.used = card.used + 1]
        c2 == IF sessions_remaining(c1) = 0 THEN [c1 EXCEPT !.status = "completed"] ELSE c1
    IN  SessionCard_save(c2)

(***************************************************************************)
(* The observation record: which handler ran last and what it did.         *)
(*   charges: one entry per charge the handler attempted, with the stored  *)
(*            card row right before and right after the attempt;           *)
(*   returns: one entry per pre_delete return, likewise;                   *)
(*   who:     the member whose booking was made or cancelled.              *)
(***************************************************************************)
Nobody == "nobody"

Event(op, outcome, att, who, charges, returns) ==
    [op |-> op, outcome |-> outcome, att |-> att, who |-> who,
     charges |-> charges, returns |-> returns]

Ids == 1..MaxBookings

FreeId == CHOOSE i \in Ids : i \notin DOMAIN atts /\ \A j \in Ids \ DOMAIN atts : i <= j

Remove(f, i) == [j \in DOMAIN f \ {i} |-> f[j]]

(***************************************************************************)
(* equipment/assignment.py: shoe size string -> size category.             *)
(***************************************************************************)
Digits == <<"0", "1", "2", "3", "4", "5", "6", "7", "8", "9">>

IsDigit(ch) == \E d \in 1..10 : Digits[d] = ch

DigitValue(ch) == (CHOOSE d \in 1..10 : Digits[d] = ch) - 1

RECURSIVE IntValue(_)
IntValue(str) ==
    IF str = <<>> THEN 0
    ELSE 10 * IntValue(SubSeq(str, 1, Len(str) - 1)) + DigitValue(str[Len(str)])

\* int(shoe_size_str) succeeds on a non-empty run of decimal digits.
IntParses(str) == str # <<>> /\ \A i \in 1..Len(str) : IsDigit(str[i])

hardcoded_size(size) ==
    IF size <= 36 THEN "S" ELSE IF size <= 41 THEN "M" ELSE IF size <= 46 THEN "L" ELSE "XL"

\* A variant of the lookup whose lower boundary is exclusive, to test that
\* the size property sees the configured ranges.
size_lookup_exclusive_min(str) ==
    IF str = <<>> THEN NoCat
    ELSE IF ~IntParses(str) THEN NoCat
    ELSE LET size == IntValue(str)
             match == {t \in SizeTypes : t.is_active /\ t.min_shoe_size < size
                                          /\ t.max_shoe_size >= size}
         IN  IF match # {}
             THEN (CHOOSE t \in match : \A u \in match : t.min_shoe_size <= u.min_shoe_size).name
             ELSE hardcoded_size(size)

get_size_category_from_shoe_size(str) ==
    IF str = <<>> THEN NoCat
    ELSE IF ~IntParses(str) THEN NoCat
    ELSE LET size == IntValue(str)
             match == {t \in SizeTypes : t.is_active /\ t.min_shoe_size <= size
                                          /\ t.max_shoe_size >= size}
         IN  IF match # {}
             THEN (CHOOSE t \in match : \A u \in match : t.min_shoe_size <= u.min_shoe_size).name
             ELSE hardcoded_size(size)

(***************************************************************************)
(* equipment/assignment.py: weight -> spring type key.  SpringType_objects *)
(* is the SpringType table, a set of rows with unique names.               *)
(***************************************************************************)
NoWeight == -1
WEIGHT_THRESHOLD == 80

\* str.lower() on the names and keys in use.
lower(str) ==
    CASE str = "Standaard" -> "standaard"
      [] str = "HD" -> "hd"
      [] str = "Light" -> "light"
      [] OTHER -> str

\* The table's default order, Meta.ordering = ['name'].
NameOrder == <<"HD", "Light", "Standaard">>
NameIndex(name) == CHOOSE i \in 1..Len(NameOrder) : NameOrder[i] = name
FirstByName(rows) == CHOOSE t \in rows : \A u \in rows : NameIndex(t.name) <= NameIndex(u.name)

\* A variant of the resolver without the step to the class that has no maximum:
\* a weight above every defined maximum goes to the largest defined maximum.
spring_type_without_unlimited(SpringType_objects, weight) ==
    IF weight = NoWeight \/ weight = 0 THEN {"standard"}
    ELSE LET active == {t \in SpringType_objects : t.is_active}
             suitable == {t \in active : t.max_weight # NoMax /\ t.max_weight >= weight}
         IN  IF suitable # {}
             THEN {lower(t.name) : t \in {t \in suitable :
                                            \A u \in suitable : t.max_weight <= u.max_weight}}
             ELSE IF active # {}
             THEN {lower(t.name) : t \in {t \in active :
                                            \A u \in active : t.max_weight >= u.max_weight}}
             ELSE {IF weight >= WEIGHT_THRESHOLD THEN "hd" ELSE "standard"}

\* A variant of the resolver for which a weight equal to a class's maximum is
\* too heavy, to test that the spring property sees the boundary.
spring_type_strictly_below_max(SpringType_objects, weight) ==
    IF weight = NoWeight \/ weight = 0 THEN {"standard"}
    ELSE LET active == {t \in SpringType_objects : t.is_active}
             suitable == {t \in active : t.max_weight # NoMax /\ t.max_weight > weight}
             heaviest == {t \in active : t.max_weight = NoMax}
         IN  IF suitable # {}
             THEN {lower(t.name) : t \in {t \in suitable :
                                            \A u \in suitable : t.max_weight <= u.max_weight}}
             ELSE IF heaviest # {} THEN {lower(FirstByName(heaviest).name)}
             ELSE IF active # {}
             THEN {lower(t.name) : t \in {t \in active :
                                            \A u \in active : t.max_weight >= u.max_weight}}
             ELSE {IF weight >= WEIGHT_THRESHOLD THEN "hd" ELSE "standard"}

\* get_spring_type_from_weight: the keys it can return.  order_by('max_weight')
\* leaves the order of rows with equal max_weight to the database, so .first()
\* can be any of them.
get_spring_type_from_weight(SpringType_objects, weight) ==
    IF weight = NoWeight \/ weight = 0 THEN {"standard"}
    ELSE LET active == {t \in SpringType_objects : t.is_active}
             suitable == {t \in active : t.max_weight # NoMax /\ t.max_weight >= weight}
             heaviest == {t \in active : t.max_weight = NoMax}
         IN  IF suitable # {}
             THEN {lower(t.name) : t \in {t \in suitable :
                                            \A u \in suitable : t.max_weight <= u.max_weight}}
             ELSE IF heaviest # {} THEN {lower(FirstByName(heaviest).name)}
             ELSE IF active # {}
             THEN {lower(t.name) : t \in {t \in active :
                                            \A u \in active : t.max_weight >= u.max_weight}}
             ELSE {IF weight >= WEIGHT_THRESHOLD THEN "hd" ELSE "standard"}

\* SPRING_TYPE_NAMES and _resolve_spring_type_name: key -> SpringType name.
resolve_spring_type_name(spring_type_key) ==
    IF lower(spring_type_key) \in {"standard", "standaard"} THEN "Standaard"
    ELSE IF lower(spring_type_key) = "hd" THEN "HD"
    ELSE spring_type_key

\* get_member_equipment_requirements: its first statement (line 134) reads
\* member.override_size_type, which Member does not have; the AttributeError
\* leaves the function before anything is resolved.
get_member_equipment_requirements(m) ==
    IF "override_size_type" \notin MemberAttributes THEN AttributeError
    ELSE <<get_size_category_from_shoe_size(shoe_size[m]), "standard">>

\* get_member_category: line 259 calls the function above and does not catch.
get_member_category(m) ==
    LET requirements == get_member_equipment_requirements(m)
    IN  IF requirements = AttributeError THEN AttributeError
        ELSE IF requirements[1] = NoCat THEN NoCat
        ELSE LET match == {k \in EquipmentCategories :
                              k.is_active /\ k.size_type = requirements[1]}
             IN  IF match = {} THEN NoCat ELSE (CHOOSE k \in match : TRUE).name

(***************************************************************************)
(* bookings/schedule_models.py: the window gate and the capacity.          *)
(***************************************************************************)
\* A variant of the gate whose closing boundary is exclusive, to test that the
\* gate's property sees the boundary.
gate_closing_exclusive(session_datetime, opens_days_before, closes_hours_before) ==
    IF session_datetime <= now THEN FALSE
    ELSE IF now < session_datetime - opens_days_before * HoursPerDay THEN FALSE
    ELSE IF now >= session_datetime - closes_hours_before THEN FALSE
    ELSE TRUE

\* SessionSchedule.is_booking_open, with the schedule's two window fields passed in.
booking_window_gate(session_datetime, opens_days_before, closes_hours_before) ==
    IF session_datetime <= now THEN FALSE
    ELSE IF now < session_datetime - opens_days_before * HoursPerDay THEN FALSE
    ELSE IF now > session_datetime - closes_hours_before THEN FALSE
    ELSE TRUE

is_booking_open(s, session_datetime) ==
    booking_window_gate(session_datetime, booking_opens_days_before[s],
                        booking_closes_hours_before[s])

\* A variant of the equipment count that counts the items in maintenance and the
\* broken ones too, to test that the availability property sees the status.
capacity_counting_every_status(size_category) ==
    Cardinality({e \in Equipment : equipment_size[e] = size_category})

\* SessionSchedule.get_capacity_for_size; no caller passes spring_type_key.
get_capacity_for_size(size_category) ==
    Cardinality({e \in Equipment : equipment_status[e] = "available"
                                   /\ equipment_size[e] = size_category})

booked_count(session_datetime, title, size_category) ==
    Cardinality({i \in DOMAIN atts : atts[i].date = session_datetime
                                      /\ atts[i].title = title
                                      /\ atts[i].cat = size_category})

total_booked(session_datetime, title) ==
    Cardinality({i \in DOMAIN atts : atts[i].date = session_datetime
                                      /\ atts[i].title = title})

\* A variant of the capacity that forgets the bookings already made, to test
\* that the capacity property sees them.
capacity_ignoring_bookings(s, session_datetime, size_category) ==
    get_capacity_for_size(size_category)

\* A variant of the capacity without the schedule's maximum, to test that the
\* ceiling property sees it.
capacity_without_maximum(s, session_datetime, size_category) ==
    Max(0, get_capacity_for_size(size_category)
           - booked_count(session_datetime, sched_title[s], size_category))

get_available_capacity_for_size(s, session_datetime, size_category) ==
    LET total_capacity == get_capacity_for_size(size_category)
        available == Max(0, total_capacity
                            - booked_count(session_datetime, sched_title[s], size_category))
    IN  IF max_capacity[s] # NoMax
        THEN Min(available,
                 Max(0, max_capacity[s] - total_booked(session_datetime, sched_title[s])))
        ELSE available

RECURSIVE SumOver(_, _)
SumOver(f, S) ==
    IF S = {} THEN 0 ELSE LET x == CHOOSE x \in S : TRUE IN f[x] + SumOver(f, S \ {x})

\* SessionSchedule.get_available_capacity with size_category=None: the loop over
\* the four sizes, then the schedule-level maximum.
get_available_capacity(s, session_datetime) ==
    LET per_size == [size \in SIZE_CHOICES |->
                        Max(0, get_capacity_for_size(size)
                               - booked_count(session_datetime, sched_title[s], size))]
        total_available == SumOver(per_size, SIZE_CHOICES)
    IN  IF max_capacity[s] # NoMax
        THEN Min(total_available,
                 Max(0, max_capacity[s] - total_booked(session_datetime, sched_title[s])))
        ELSE total_available

(***************************************************************************)
(* bookings/models.py: the two signal handlers.  A store is the pair of    *)
(* tables a handler reads and writes, with the log of what it did.         *)
(***************************************************************************)
Store(cs, as, charges, returns) ==
    [cards |-> cs, atts |-> as, charges |-> charges, returns |-> returns]

Entry(id, c, before, after) == [att |-> id, card |-> c, before |-> before, after |-> after]

is_in_past(att) == att.date < now

\* post_save: runs after every SessionAttendance save() and create().
use_card_session_on_save(st, id) ==
    LET instance == st.atts[id]
    IN  IF instance.card # NoCard /\ ~instance.flag
        THEN IF ~is_in_past(instance) THEN st
             ELSE LET card == st.cards[instance.card]
                  IN  IF card.status = "active" /\ sessions_remaining(card) > 0
                      THEN LET c1 == [card EXCEPT !.used = card.used + 1]
                               c2 == IF c1.used >= c1.total
                                     THEN [c1 EXCEPT !.status = "completed"] ELSE c1
                               c3 == SessionCard_save(c2)
                           IN  Store([st.cards EXCEPT ![instance.card] = c3],
                                     [st.atts EXCEPT ![id].flag = TRUE, ![id].debit = instance.card],
                                     Append(st.charges, Entry(id, instance.card, card, c3)),
                                     st.returns)
                      ELSE [st EXCEPT !.charges = Append(st.charges,
                                                         Entry(id, instance.card, card, card))]
        ELSE st

\* Variants of the pre_delete handler, to test that the properties of the return
\* see its reactivation and its decrement: one that never reactivates the card,
\* one that gives two sessions back.
return_without_reactivation(st, id) ==
    LET instance == st.atts[id]
    IN  IF instance.card # NoCard /\ instance.flag
        THEN LET card == st.cards[instance.card]
                 c1 == [card EXCEPT !.used = Max(0, card.used - 1)]
                 c3 == SessionCard_save(c1)
             IN  Store([st.cards EXCEPT ![instance.card] = c3], st.atts, st.charges,
                       Append(st.returns, Entry(id, instance.card, card, c3)))
        ELSE st

return_two_sessions(st, id) ==
    LET instance == st.atts[id]
    IN  IF instance.card # NoCard /\ instance.flag
        THEN LET card == st.cards[instance.card]
                 c1 == [card EXCEPT !.used = Max(0, card.used - 2)]
                 c2 == IF c1.status = "completed" /\ sessions_remaining(c1) > 0
                       THEN [c1 EXCEPT !.status = "active"] ELSE c1
                 c3 == SessionCard_save(c2)
             IN  Store([st.cards EXCEPT ![instance.card] = c3], st.atts, st.charges,
                       Append(st.returns, Entry(id, instance.card, card, c3)))
        ELSE st

\* pre_delete: runs before a SessionAttendance row is deleted.
return_card_session_on_delete(st, id) ==
    LET instance == st.atts[id]
    IN  IF instance.card # NoCard /\ instance.flag
        THEN LET card == st.cards[instance.card]
                 c1 == [card EXCEPT !.used = Max(0, card.used - 1)]
                 c2 == IF c1.status = "completed" /\ sessions_remaining(c1) > 0
                       THEN [c1 EXCEPT !.status = "active"] ELSE c1
                 c3 == SessionCard_save(c2)
             IN  Store([st.cards EXCEPT ![instance.card] = c3], st.atts, st.charges,
                       Append(st.returns, Entry(id, instance.card, card, c3)))
        ELSE st

\* instance.delete(): the pre_delete handler, then the row goes.
delete_attendance(st, id) ==
    LET st1 == return_card_session_on_delete(st, id)
    IN  [st1 EXCEPT !.atts = Remove(st1.atts, id)]

NewAtt(m, dt, title, cat, c) ==
    [member |-> m, date |-> dt, title |-> title, cat |-> cat, card |-> c,
     flag |-> FALSE, debit |-> NoCard]

\* A store without the unique constraint and a view without its duplicate
\* test, to test that the uniqueness property sees them.
no_unique_constraint(as, m, dt, title) == FALSE

\* unique_together = ['member', 'session_date', 'title']
violates_unique(as, m, dt, title) ==
    \E i \in DOMAIN as : as[i].member = m /\ as[i].date = dt /\ as[i].title = title

\* SessionAttendance.objects.create(...): the insert, then post_save.
create_attendance(st, id, row) ==
    use_card_session_on_save([st EXCEPT !.atts = (id :> row) @@ st.atts], id)

Store0 == Store(cards, atts, <<>>, <<>>)

\* Member.active_cards().first()
active_cards(m) == {c \in Cards : CardOwner[c] = m /\ cards[c].status = "active"}

first_active_card(m) == IF active_cards(m) = {} THEN NoCard ELSE CHOOSE c \in active_cards(m) : TRUE

(***************************************************************************)
(* Initial state: no bookings; the card as sold (10-session card scaled to *)
(* MaxSessions); the schedule active.                                      *)
(***************************************************************************)
NoEvent == Event("none", "none", 0, Nobody, <<>>, <<>>)

NoGate == [called |-> FALSE, session_datetime |-> 0, opens_days_before |-> 0,
           closes_hours_before |-> 0, result |-> FALSE]

NoCall == [fn |-> "none"]

\* The browsers (Django sessions) guests book from; a new session holds no e-mail.
Browsers == {"b1", "b2"}
NoEmail == ""

\* The member views answer every request, a rejected one too.
MemberViews == {"book_session", "cancel_booking"}

Init ==
    /\ now = 0
    /\ cards = [c \in Cards |-> [total |-> MaxSessions, used |-> 0, status |-> "active"]]
    /\ atts = <<>>
    /\ is_active = [s \in AllSchedules |-> TRUE]
    /\ reqs = {}
    /\ gate = NoGate
    /\ call = NoCall
    /\ event_bookings = <<>>
    /\ company_booking_email = [b \in Browsers |-> NoEmail]
    /\ ev = NoEvent

\* A handler's writes reach the store.  An admin handler or command that changed
\* no row (a skipped row, a dry run) leaves no observation behind.
Commit(st, op, outcome, id, who) ==
    /\ cards' = st.cards
    /\ atts' = st.atts
    /\ ev' = IF st.cards = cards /\ st.atts = atts /\ op \notin MemberViews THEN NoEvent
             ELSE Event(op, outcome, id, who, st.charges, st.returns)

\* Time passes between requests.
Tick(t) ==
    /\ t > now
    /\ now' = t
    /\ ev' = NoEvent
    /\ UNCHANGED <<cards, atts, is_active, reqs, gate, call, event_bookings, company_booking_email>>

\* SessionScheduleAdmin: the admin switches a schedule on or off.
SetScheduleActive(s, b) ==
    /\ is_active[s] # b
    /\ is_active' = [is_active EXCEPT ![s] = b]
    /\ ev' = NoEvent
    /\ UNCHANGED <<now, cards, atts, reqs, gate, call, event_bookings, company_booking_email>>

(***************************************************************************)
(* accounts/views.py book_session: the checks, then the insert.            *)
(***************************************************************************)
\* Lines 535-558: the outcome of the checks, "ok" when all pass.
book_session_checks(m, s, dt) ==
    LET size_category == get_size_category_from_shoe_size(shoe_size[m])
    IN  IF ~is_booking_open(s, dt) THEN "NotOpen"
        ELSE IF get_available_capacity_for_size(s, dt, size_category) <= 0
             THEN "CapacityExhausted"
        ELSE IF violates_unique(atts, m, dt, sched_title[s])
             THEN "Duplicate"
        ELSE "ok"

\* A variant of the insert that tests the availability again right before the
\* row is written, to test that the concurrency property sees the gap between
\* the view's checks and its insert.
insert_rechecking_capacity(m, s, dt, use_card) ==
    LET size_category == get_size_category_from_shoe_size(shoe_size[m])
        card == IF use_card THEN first_active_card(m) ELSE NoCard
    IN  IF violates_unique(atts, m, dt, sched_title[s])
        THEN Commit(Store0, "book_session", "Error", 0, Nobody)
        ELSE IF get_available_capacity_for_size(s, dt, size_category) <= 0
        THEN Commit(Store0, "book_session", "CapacityExhausted", 0, Nobody)
        ELSE /\ Cardinality(DOMAIN atts) < MaxBookings
             /\ Commit(create_attendance(Store0, FreeId,
                                         NewAtt(m, dt, sched_title[s], size_category, card)),
                       "book_session", "created", FreeId, m)

\* Lines 560-586: pick the card, insert the row (the unique constraint is the
\* database's; its IntegrityError is caught at line 594), run post_save.
book_session_insert(m, s, dt, use_card) ==
    LET size_category == get_size_category_from_shoe_size(shoe_size[m])
        card == IF use_card THEN first_active_card(m) ELSE NoCard
    IN  IF violates_unique(atts, m, dt, sched_title[s])
        THEN Commit(Store0, "book_session", "Error", 0, Nobody)
        ELSE /\ Cardinality(DOMAIN atts) < MaxBookings
             /\ Commit(create_attendance(Store0, FreeId,
                                         NewAtt(m, dt, sched_title[s], size_category, card)),
                       "book_session", "created", FreeId, m)

\* One request served without interruption.
BookSession(m, s, dt, use_card) ==
    /\ LET outcome == book_session_checks(m, s, dt)
       IN  IF outcome # "ok"
           THEN Commit(Store0, "book_session", outcome, 0, Nobody)
           ELSE book_session_insert(m, s, dt, use_card)
    /\ UNCHANGED <<now, is_active, reqs, gate, call, event_bookings, company_booking_email>>

\* The same request served by one of several workers: its checks (lines 535-558)
\* and its insert (lines 560-586) are two steps, and other requests run between.
Workers == {"w1", "w2"}

BookCheck(w, m, s, dt, use_card) ==
    /\ \A r \in reqs : r.worker # w
    /\ LET outcome == book_session_checks(m, s, dt)
       IN  IF outcome # "ok"
           THEN /\ Commit(Store0, "book_session", outcome, 0, Nobody)
                /\ reqs' = reqs
           ELSE /\ reqs' = reqs \cup {[worker |-> w, member |-> m, schedule |-> s,
                                       session_datetime |-> dt, use_card |-> use_card]}
                /\ ev' = NoEvent
                /\ UNCHANGED <<cards, atts>>
    /\ UNCHANGED <<now, is_active, gate, call, event_bookings, company_booking_email>>

BookInsert(w) ==
    /\ \E r \in reqs :
          /\ r.worker = w
          /\ book_session_insert(r.member, r.schedule, r.session_datetime, r.use_card)
          /\ reqs' = reqs \ {r}
    /\ UNCHANGED <<now, is_active, gate, call, event_bookings, company_booking_email>>

(***************************************************************************)
(* accounts/views.py cancel_booking.                                       *)
(***************************************************************************)
\* A variant of the view without its test of the session date, to test that the
\* cancellation property sees the test.
cancel_without_future_test(m, id) ==
    /\ IF ~(id \in DOMAIN atts /\ atts[id].member = m)
       THEN Commit(Store0, "cancel_booking", "NotFound", 0, Nobody)
       ELSE Commit(delete_attendance(Store0, id), "cancel_booking", "deleted", id, m)
    /\ UNCHANGED <<now, is_active, reqs, gate, call, event_bookings, company_booking_email>>

CancelBooking(m, id) ==
    /\ IF ~(id \in DOMAIN atts /\ atts[id].member = m)
       THEN Commit(Store0, "cancel_booking", "NotFound", 0, Nobody)
       ELSE IF atts[id].date <= now
       THEN Commit(Store0, "cancel_booking", "PastOccurrence", 0, Nobody)
       ELSE Commit(delete_attendance(Store0, id), "cancel_booking", "deleted", id, m)
    /\ UNCHANGED <<now, is_active, reqs, gate, call, event_bookings, company_booking_email>>

\* The admin deletes an attendance row (delete view or delete_selected).
AdminDelete(id) ==
    /\ id \in DOMAIN atts
    /\ Commit(delete_attendance(Store0, id), "admin_delete", "deleted", id, Nobody)
    /\ UNCHANGED <<now, is_active, reqs, gate, call, event_bookings, company_booking_email>>

(***************************************************************************)
(* bookings/utils.py process_csv_import, one row of the file.              *)
(***************************************************************************)
ImportCsvRow(m, dt, title, auto_assign_cards) ==
    /\ LET session_card == IF auto_assign_cards THEN first_active_card(m) ELSE NoCard
       IN  IF violates_unique(atts, m, dt, title)
           THEN Commit(Store0, "csv_import", "skipped", 0, Nobody)
           ELSE /\ Cardinality(DOMAIN atts) < MaxBookings
                /\ Commit(create_attendance(Store0, FreeId,
                                            NewAtt(m, dt, title, NoCat, session_card)),
                          "csv_import", "created", FreeId, Nobody)
    /\ UNCHANGED <<now, is_active, reqs, gate, call, event_bookings, company_booking_email>>

(***************************************************************************)
(* bookings/admin.py SessionAttendanceAdmin.                               *)
(***************************************************************************)
\* save_model on the change form: the submitted card and checkbox.
AdminChange(id, new_card, new_flag) ==
    /\ id \in DOMAIN atts
    /\ LET old == atts[id]
           obj == [old EXCEPT !.card = new_card, !.flag = new_flag]
           changed == old.flag # new_flag
           card == IF new_card # NoCard THEN cards[new_card] ELSE [total |-> 0, used |-> 0, status |-> "none"]
           charge == changed /\ obj.flag /\ obj.card # NoCard
                     /\ card.status = "active" /\ sessions_remaining(card) > 0
           c1 == [card EXCEPT !.used = card.used + 1]
           c2 == IF c1.used >= c1.total THEN [c1 EXCEPT !.status = "completed"] ELSE c1
           c3 == SessionCard_save(c2)
           attempted == changed /\ obj.flag /\ obj.card # NoCard
           st1 == IF charge
                  THEN Store([cards EXCEPT ![new_card] = c3],
                             [atts EXCEPT ![id] = [obj EXCEPT !.debit = new_card]],
                             <<Entry(id, new_card, card, c3)>>, <<>>)
                  ELSE Store(cards, [atts EXCEPT ![id] = obj],
                             IF attempted THEN <<Entry(id, new_card, card, card)>> ELSE <<>>,
                             <<>>)
       IN  Commit(use_card_session_on_save(st1, id), "save_model",
                  IF ~changed THEN "saved" ELSE IF new_flag THEN "checked" ELSE "unchecked",
                  id, Nobody)
    /\ UNCHANGED <<now, is_active, reqs, gate, call, event_bookings, company_booking_email>>

\* The rows of a selection in the changelist's order: -session_date, -pk.
RECURSIVE InAdminOrder(_)
InAdminOrder(sel) ==
    IF sel = {} THEN <<>>
    ELSE LET i == CHOOSE i \in sel : \A j \in sel :
                      \/ atts[i].date > atts[j].date
                      \/ (atts[i].date = atts[j].date /\ i >= j)
         IN  <<i>> \o InAdminOrder(sel \ {i})

\* One pass of the action's loop body; attendance.session_card is fetched here.
charge_manually_one(st, id) ==
    LET attendance == st.atts[id]
    IN  IF attendance.card = NoCard THEN st
        ELSE IF attendance.flag THEN st
        ELSE LET card == st.cards[attendance.card]
             IN  IF card.status = "active" /\ sessions_remaining(card) > 0
                 THEN LET c1 == [card EXCEPT !.used = card.used + 1]
                          c2 == IF c1.used >= c1.total
                                THEN [c1 EXCEPT !.status = "completed"] ELSE c1
                          c3 == SessionCard_save(c2)
                          st1 == Store([st.cards EXCEPT ![attendance.card] = c3],
                                       [st.atts EXCEPT ![id].flag = TRUE,
                                                       ![id].debit = attendance.card],
                                       Append(st.charges, Entry(id, attendance.card, card, c3)),
                                       st.returns)
                      IN  use_card_session_on_save(st1, id)
                 ELSE [st EXCEPT !.charges = Append(st.charges,
                                                    Entry(id, attendance.card, card, card))]

RECURSIVE charge_manually_loop(_, _)
charge_manually_loop(st, ids) ==
    IF ids = <<>> THEN st
    ELSE charge_manually_loop(charge_manually_one(st, Head(ids)), Tail(ids))

\* charge_sessions_manually(request, queryset)
ChargeManually(sel) ==
    /\ sel # {}
    /\ sel \subseteq DOMAIN atts
    /\ Commit(charge_manually_loop(Store0, InAdminOrder(sel)),
              "charge_sessions_manually", "done", 0, Nobody)
    /\ UNCHANGED <<now, is_active, reqs, gate, call, event_bookings, company_booking_email>>

\* A variant of the write that increments the card row as stored when the write
\* happens, to test that the charge race property sees the gap between the read
\* and the write.
charge_write_on_stored_row(st, r) ==
    LET card == st.cards[r.card]
        c1 == [card EXCEPT !.used = card.used + 1]
        c2 == IF c1.used >= c1.total THEN [c1 EXCEPT !.status = "completed"] ELSE c1
        c3 == SessionCard_save(c2)
        st1 == Store([st.cards EXCEPT ![r.card] = c3],
                     [st.atts EXCEPT ![r.att].flag = TRUE, ![r.att].debit = r.card],
                     Append(st.charges, Entry(r.att, r.card, st.cards[r.card], c3)),
                     st.returns)
    IN  use_card_session_on_save(st1, r.att)

\* Lines 182-188 for a request r whose lines 173-181 have run: r.observed is the
\* card object read then; card.save() writes all its fields.
charge_manually_write(st, r) ==
    LET card == r.observed
        c1 == [card EXCEPT !.used = card.used + 1]
        c2 == IF c1.used >= c1.total THEN [c1 EXCEPT !.status = "completed"] ELSE c1
        c3 == SessionCard_save(c2)
        st1 == Store([st.cards EXCEPT ![r.card] = c3],
                     [st.atts EXCEPT ![r.att].flag = TRUE, ![r.att].debit = r.card],
                     Append(st.charges, Entry(r.att, r.card, st.cards[r.card], c3)),
                     st.returns)
    IN  use_card_session_on_save(st1, r.att)

\* The action on one selected row, served by one of several workers: the row and
\* its card are read and tested (lines 173-181) ...
ChargeRead(w, id) ==
    /\ \A r \in reqs : r.worker # w
    /\ id \in DOMAIN atts
    /\ reqs' = IF atts[id].card # NoCard /\ ~atts[id].flag /\ is_valid(cards[atts[id].card])
               THEN reqs \cup {[worker |-> w, att |-> id, card |-> atts[id].card,
                                observed |-> cards[atts[id].card]]}
               ELSE reqs
    /\ ev' = NoEvent
    /\ UNCHANGED <<now, cards, atts, is_active, gate, call, event_bookings,
                   company_booking_email>>

\* ... and written (lines 182-188), other requests running between.
ChargeWrite(w) ==
    /\ \E r \in reqs :
          /\ r.worker = w
          /\ Commit(charge_manually_write(Store0, r), "charge_sessions_manually", "done",
                    r.att, Nobody)
          /\ reqs' = reqs \ {r}
    /\ UNCHANGED <<now, is_active, gate, call, event_bookings, company_booking_email>>

(***************************************************************************)
(* management/commands/charge_past_sessions.py.  The queryset is evaluated *)
(* once with select_related('session_card'): every row carries its own     *)
(* card object, built from the card row as it was when the query ran.      *)
(***************************************************************************)
past_uncharged == {i \in DOMAIN atts : atts[i].date < now /\ atts[i].card # NoCard
                                        /\ ~atts[i].flag}

\* Meta.ordering = ['-session_date']; rows of one date in pk order.
RECURSIVE InModelOrder(_)
InModelOrder(sel) ==
    IF sel = {} THEN <<>>
    ELSE LET i == CHOOSE i \in sel : \A j \in sel :
                      \/ atts[i].date > atts[j].date
                      \/ (atts[i].date = atts[j].date /\ i <= j)
         IN  <<i>> \o InModelOrder(sel \ {i})

\* One pass of the loop body; `fetched` is the card table when the query ran.
charge_command_one(st, id, fetched) ==
    LET attendance == st.atts[id]
        card == fetched[attendance.card]
        stored == st.cards[attendance.card]
    IN  IF card.status = "active" /\ sessions_remaining(card) > 0
        THEN LET c1 == [card EXCEPT !.used = card.used + 1]
                 c2 == IF c1.used >= c1.total
                       THEN [c1 EXCEPT !.status = "completed"] ELSE c1
                 c3 == SessionCard_save(c2)
                 st1 == Store([st.cards EXCEPT ![attendance.card] = c3],
                              [st.atts EXCEPT ![id].flag = TRUE,
                                              ![id].debit = attendance.card],
                              Append(st.charges, Entry(id, attendance.card, stored, c3)),
                              st.returns)
             IN  use_card_session_on_save(st1, id)
        ELSE [st EXCEPT !.charges = Append(st.charges,
                                           Entry(id, attendance.card, stored, stored))]

RECURSIVE charge_command_loop(_, _, _)
charge_command_loop(st, ids, fetched) ==
    IF ids = <<>> THEN st
    ELSE charge_command_loop(charge_command_one(st, Head(ids), fetched), Tail(ids), fetched)

\* Command.handle(dry_run)
ChargeCommand(dry_run) ==
    /\ IF past_uncharged = {}
       THEN Commit(Store0, "charge_past_sessions", "nothing", 0, Nobody)
       ELSE IF dry_run
       THEN Commit(Store0, "charge_past_sessions", "dry_run", 0, Nobody)
       ELSE Commit(charge_command_loop(Store0, InModelOrder(past_uncharged), cards),
                   "charge_past_sessions", "done", 0, Nobody)
    /\ UNCHANGED <<now, is_active, reqs, gate, call, event_bookings, company_booking_email>>

(***************************************************************************)
(* cards: a direct use_session call, and cards/admin.py SessionCardAdmin.  *)
(***************************************************************************)
UseSession(c) ==
    /\ IF ~is_valid(cards[c])
       THEN Commit(Store(cards, atts, <<Entry(0, c, cards[c], cards[c])>>, <<>>),
                   "use_session", "ValueError", 0, Nobody)
       ELSE Commit(Store([cards EXCEPT ![c] = use_session(cards[c])], atts,
                         <<Entry(0, c, cards[c], use_session(cards[c]))>>, <<>>),
                   "use_session", "used", 0, Nobody)
    /\ UNCHANGED <<now, is_active, reqs, gate, call, event_bookings, company_booking_email>>

\* The card change form: total_sessions, sessions_used and status are editable.
AdminSaveCard(c, total, used, status) ==
    /\ Commit(Store([cards EXCEPT ![c] = SessionCard_save([total |-> total, used |-> used,
                                                           status |-> status])],
                    atts, <<>>, <<>>),
              "save_card", "saved", 0, Nobody)
    /\ UNCHANGED <<now, is_active, reqs, gate, call, event_bookings, company_booking_email>>

\* mark_as_expired: queryset.update(status='expired'), no save().
MarkExpired(sel) ==
    /\ sel # {}
    /\ Commit(Store([c \in Cards |-> IF c \in sel THEN [cards[c] EXCEPT !.status = "expired"]
                                     ELSE cards[c]], atts, <<>>, <<>>),
              "mark_as_expired", "done", 0, Nobody)
    /\ UNCHANGED <<now, is_active, reqs, gate, call, event_bookings, company_booking_email>>

\* mark_as_active: filter(sessions_used__lt=F('total_sessions')).update(status='active')
MarkActive(sel) ==
    /\ sel # {}
    /\ Commit(Store([c \in Cards |-> IF c \in sel /\ cards[c].used < cards[c].total
                                     THEN [cards[c] EXCEPT !.status = "active"]
                                     ELSE cards[c]], atts, <<>>, <<>>),
              "mark_as_active", "done", 0, Nobody)
    /\ UNCHANGED <<now, is_active, reqs, gate, call, event_bookings, company_booking_email>>

\* The ledger's handlers are run before the first session (hour 0) and after it.
\* The admin changes one field of the card form per save.
LedgerTimes == {25}
LedgerDates == {24}
LedgerMembers == {"m1", "m2"}

Next ==
    \/ \E t \in LedgerTimes : Tick(t)
    \/ \E m \in LedgerMembers, s \in Schedules, dt \in LedgerDates, use_card \in BOOLEAN :
          BookSession(m, s, dt, use_card)
    \/ \E m \in LedgerMembers, id \in Ids : CancelBooking(m, id)
    \/ \E id \in Ids : AdminDelete(id)
    \/ \E m \in LedgerMembers, dt \in LedgerDates, title \in Titles, auto \in BOOLEAN :
          ImportCsvRow(m, dt, title, auto)
    \/ \E id \in Ids, c \in Cards \cup {NoCard}, f \in BOOLEAN : AdminChange(id, c, f)
    \/ \E sel \in SUBSET Ids : ChargeManually(sel)
    \/ \E dry_run \in BOOLEAN : ChargeCommand(dry_run)
    \/ \E c \in Cards : UseSession(c)
    \/ \E c \in Cards, total \in 1..MaxSessions :
          AdminSaveCard(c, total, cards[c].used, cards[c].status)
    \/ \E c \in Cards, used \in 0..MaxSessions :
          AdminSaveCard(c, cards[c].total, used, cards[c].status)
    \/ \E c \in Cards, status \in STATUS_CHOICES :
          AdminSaveCard(c, cards[c].total, cards[c].used, status)
    \/ \E sel \in SUBSET Cards : MarkExpired(sel)
    \/ \E sel \in SUBSET Cards : MarkActive(sel)

Spec == Init /\ [][Next]_vars

(***************************************************************************)
(* The member's side alone: bookings and cancellations, each served        *)
(* without interruption, while time passes and the admin switches the      *)
(* schedule on and off.                                                    *)
(***************************************************************************)
NextBooking ==
    \/ \E t \in Times : Tick(t)
    \/ \E s \in Schedules, b \in BOOLEAN : SetScheduleActive(s, b)
    \/ \E m \in Members, s \in Schedules, dt \in Dates, use_card \in BOOLEAN :
          BookSession(m, s, dt, use_card)
    \/ \E m \in Members, id \in Ids : CancelBooking(m, id)

SpecBooking == Init /\ [][NextBooking]_vars

(***************************************************************************)
(* The member's side with two workers serving requests concurrently.       *)
(***************************************************************************)
\* Between a request's checks and its insert the window may close.
ConcTimes == {23}

NextConc ==
    \/ \E t \in ConcTimes : Tick(t)
    \/ \E w \in Workers, m \in Members, s \in Schedules, dt \in Dates, use_card \in BOOLEAN :
          BookCheck(w, m, s, dt, use_card)
    \/ \E w \in Workers : BookInsert(w)
    \/ \E m \in Members, id \in Ids : CancelBooking(m, id)

SpecConc == Init /\ [][NextConc]_vars

(***************************************************************************)
(* The booking window gate as a function of the clock, the occurrence and  *)
(* the schedule's two window fields.                                       *)
(***************************************************************************)
\* The last hour of the clock, the occurrences asked about and the values of the
\* two window fields.
MaxHour == 50
GateDatetimes == {24, 48}
OpensDays == 1..2
ClosesHours == 0..3

InitGate ==
    /\ now \in 0..MaxHour
    /\ cards = [c \in Cards |-> [total |-> MaxSessions, used |-> 0, status |-> "active"]]
    /\ atts = <<>>
    /\ is_active = [s \in AllSchedules |-> TRUE]
    /\ reqs = {}
    /\ gate = NoGate
    /\ call = NoCall
    /\ event_bookings = <<>>
    /\ company_booking_email = [b \in Browsers |-> NoEmail]
    /\ ev = NoEvent

CheckGate(session_datetime, opens_days_before, closes_hours_before) ==
    /\ gate' = [called |-> TRUE, session_datetime |-> session_datetime,
                opens_days_before |-> opens_days_before,
                closes_hours_before |-> closes_hours_before,
                result |-> booking_window_gate(session_datetime, opens_days_before,
                                               closes_hours_before)]
    /\ UNCHANGED <<now, cards, atts, is_active, reqs, call, event_bookings,
                   company_booking_email, ev>>

NextGate ==
    \E t \in GateDatetimes, o \in OpensDays, c \in ClosesHours : CheckGate(t, o, c)

SpecGate == InitGate /\ [][NextGate]_vars

(***************************************************************************)
(* The capacity queries, asked while members book both schedules, cancel,  *)
(* and the admin imports attendance rows (which no capacity test guards).  *)
(***************************************************************************)
\* One occurrence; a member of category M and one of category L book and cancel,
\* the rows of the third member are imported.
CapacityDates == {24}
CapacityMembers == {"m1", "m2"}

CheckCapacityForSize(s, session_datetime, size_category) ==
    /\ call' = [fn |-> "get_available_capacity_for_size", schedule |-> s,
                session_datetime |-> session_datetime, size_category |-> size_category,
                result |-> get_available_capacity_for_size(s, session_datetime,
                                                           size_category)]
    /\ UNCHANGED <<now, cards, atts, is_active, reqs, gate, event_bookings,
                   company_booking_email, ev>>

CheckCapacity(s, session_datetime) ==
    /\ call' = [fn |-> "get_available_capacity", schedule |-> s,
                session_datetime |-> session_datetime,
                result |-> get_available_capacity(s, session_datetime)]
    /\ UNCHANGED <<now, cards, atts, is_active, reqs, gate, event_bookings,
                   company_booking_email, ev>>

NextCapacity ==
    \/ \E m \in CapacityMembers, s \in AllSchedules, dt \in CapacityDates :
          BookSession(m, s, dt, FALSE)
    \/ \E m \in CapacityMembers, id \in Ids : CancelBooking(m, id)
    \/ \E m \in Members \ CapacityMembers, dt \in CapacityDates, title \in AllTitles :
          ImportCsvRow(m, dt, title, FALSE)
    \/ \E s \in AllSchedules, dt \in CapacityDates, c \in SIZE_CHOICES :
          CheckCapacityForSize(s, dt, c)
    \/ \E s \in AllSchedules, dt \in CapacityDates : CheckCapacity(s, dt)

SpecCapacity == Init /\ [][NextCapacity]_vars

(***************************************************************************)
(* The member views on both schedules, the capped one too.  The store is   *)
(* empty at first or holds one imported row of the capped schedule, which  *)
(* has no category.                                                        *)
(***************************************************************************)
ImportedRows == {NewAtt("m3", dt, sched_title[s], NoCat, NoCard) :
                    dt \in CapacityDates, s \in CappedSchedules}

InitCeiling ==
    /\ now = 0
    /\ cards = [c \in Cards |-> [total |-> MaxSessions, used |-> 0, status |-> "active"]]
    /\ atts \in {<<>>} \cup {(1 :> row) : row \in ImportedRows}
    /\ is_active = [s \in AllSchedules |-> TRUE]
    /\ reqs = {}
    /\ gate = NoGate
    /\ call = NoCall
    /\ event_bookings = <<>>
    /\ company_booking_email = [b \in Browsers |-> NoEmail]
    /\ ev = NoEvent

NextCeiling ==
    \/ \E t \in Times : Tick(t)
    \/ \E m \in Members, s \in AllSchedules, dt \in Dates : BookSession(m, s, dt, FALSE)
    \/ \E m \in Members, id \in Ids : CancelBooking(m, id)

SpecCeiling == InitCeiling /\ [][NextCeiling]_vars

(***************************************************************************)
(* bookings/schedule_models.py get_next_occurrence: the occurrence         *)
(* expander.  A date is a day number; day 0 is Monday 2024-01-01, so that  *)
(* date.weekday() (0 = Monday ... 6 = Sunday) is the day number modulo 7.  *)
(* A date-time is the hour number date * 24 + start_time.                  *)
(***************************************************************************)
DaysPerWeek == 7
NoDate == -1
\* The last day a schedule's dates and a reference date are drawn from.
MaxDay == 15

weekday_of(date) == date % DaysPerWeek

combine(date, time) == date * HoursPerDay + time

date_of(datetime) == datetime \div HoursPerDay

\* A variant of the expander whose clamp keeps the distance to the next weekday,
\* to test that the monotonicity property sees the clamp.
next_occurrence_shifted_clamp(schedule, from_date) ==
    LET d0 == schedule.weekday - weekday_of(from_date)
        days_ahead == IF d0 <= 0 THEN d0 + DaysPerWeek ELSE d0
        naive == from_date + days_ahead
        next_date == IF naive < schedule.start_date THEN schedule.start_date + days_ahead
                     ELSE naive
    IN  IF schedule.end_date # NoDate /\ next_date > schedule.end_date THEN NoDate
        ELSE combine(next_date, schedule.start_time)

\* SessionSchedule.get_next_occurrence(from_date); NoDate stands for None.
get_next_occurrence(schedule, from_date) ==
    LET d0 == schedule.weekday - weekday_of(from_date)
        days_ahead == IF d0 <= 0 THEN d0 + DaysPerWeek ELSE d0
        naive == from_date + days_ahead
        next_date == IF naive < schedule.start_date THEN schedule.start_date ELSE naive
    IN  IF schedule.end_date # NoDate /\ next_date > schedule.end_date THEN NoDate
        ELSE combine(next_date, schedule.start_time)

\* The schedules asked about: every weekday, every validity window up to MaxDay
\* (end_date may be empty), sessions at 19:00.
StartTimes == {19}
OccurrenceSchedules ==
    [weekday : 0..(DaysPerWeek - 1), start_date : 0..MaxDay,
     end_date : {NoDate} \cup 0..MaxDay, start_time : StartTimes]

InitOccurrence ==
    /\ now = 0
    /\ cards = [c \in Cards |-> [total |-> MaxSessions, used |-> 0, status |-> "active"]]
    /\ atts = <<>>
    /\ is_active = [s \in AllSchedules |-> TRUE]
    /\ reqs = {}
    /\ gate = NoGate
    /\ \E schedule \in OccurrenceSchedules :
          call = [fn |-> "none", schedule |-> schedule]
    /\ event_bookings = <<>>
    /\ company_booking_email = [b \in Browsers |-> NoEmail]
    /\ ev = NoEvent

NextOccurrence(from_date) ==
    /\ call' = [fn |-> "get_next_occurrence", schedule |-> call.schedule,
                from_date |-> from_date,
                result |-> get_next_occurrence(call.schedule, from_date)]
    /\ UNCHANGED <<now, cards, atts, is_active, reqs, gate, event_bookings,
                   company_booking_email, ev>>

\* accounts/views.py client_dashboard: the expander is called num_weeks times,
\* the reference date advancing by 7 days each time.
num_weeks == 4

upcoming_occurrences(schedule, from_date) ==
    [i \in 1..num_weeks |-> get_next_occurrence(schedule, from_date + (i - 1) * DaysPerWeek)]

EnumerateOccurrences(from_date) ==
    /\ call' = [fn |-> "upcoming_occurrences", schedule |-> call.schedule,
                from_date |-> from_date,
                occurrences |-> upcoming_occurrences(call.schedule, from_date)]
    /\ UNCHANGED <<now, cards, atts, is_active, reqs, gate, event_bookings,
                   company_booking_email, ev>>

NextExpander ==
    \/ \E from_date \in 0..MaxDay : NextOccurrence(from_date)
    \/ \E from_date \in 0..MaxDay : EnumerateOccurrences(from_date)

SpecOccurrence == InitOccurrence /\ [][NextExpander]_vars

(***************************************************************************)
(* book_session with the session_datetime the request posts: the          *)
(* schedule's next occurrence, or another hour of that day.  The schedules *)
(* are weekly on Tuesday (day 1) at 00:00, valid from day 0, without end.  *)
(***************************************************************************)
sched_recurrence == [s \in AllSchedules |->
                        [weekday |-> 1, start_date |-> 0, end_date |-> NoDate, start_time |-> 0]]

PostedDatetimes == {get_next_occurrence(sched_recurrence[s], 0) : s \in Schedules} \cup {30}

NextPosted ==
    \/ \E t \in Times : Tick(t)
    \/ \E m \in Members, s \in Schedules, dt \in PostedDatetimes : BookSession(m, s, dt, FALSE)
    \/ \E m \in Members, id \in Ids : CancelBooking(m, id)

SpecPosted == Init /\ [][NextPosted]_vars

(***************************************************************************)
(* Category resolution for a member (bookings/admin.py asks it for the     *)
(* attendance list) next to the member's own bookings.                     *)
(***************************************************************************)
ResolveCategory(m) ==
    /\ call' = [fn |-> "get_member_category", member |-> m,
                result |-> get_member_category(m)]
    /\ UNCHANGED <<now, cards, atts, is_active, reqs, gate, event_bookings,
                   company_booking_email, ev>>

NextOverride ==
    \/ \E m \in Members, s \in Schedules, dt \in Dates : BookSession(m, s, dt, FALSE)
    \/ \E m \in Members, id \in Ids : CancelBooking(m, id)
    \/ \E m \in Members : ResolveCategory(m)

SpecOverride == Init /\ [][NextOverride]_vars

(***************************************************************************)
(* The two resolvers as functions of their inputs: the shoe size typed     *)
(* into a profile, the weight, and the spring classes the admin configured.*)
(***************************************************************************)
\* Shoe size strings of up to MaxLen characters; "x" stands for any character
\* int() does not accept.
MaxLen == 2
ShoeSizeChars == {"3", "4", "6", "7", "x"}
ShoeSizeInputs == UNION {[1..n -> ShoeSizeChars] : n \in 0..MaxLen}

\* The SpringType tables: each name at most once, with a maximum weight or none.
SpringNames == {"Standaard", "HD", "Light"}
SpringMaxima == {80, 100, NoMax}
SpringTypeRows == [name : SpringNames, max_weight : SpringMaxima, is_active : BOOLEAN]
SpringTypeTables ==
    {T \in SUBSET SpringTypeRows : \A t, u \in T : t.name = u.name => t = u}

\* The weights asked about: none, zero, and values around the two maxima.
Weights == {NoWeight, 0, 75, 80, 90, 100, 120}

InitResolver ==
    /\ now = 0
    /\ cards = [c \in Cards |-> [total |-> MaxSessions, used |-> 0, status |-> "active"]]
    /\ atts = <<>>
    /\ is_active = [s \in AllSchedules |-> TRUE]
    /\ reqs = {}
    /\ gate = NoGate
    /\ \E T \in SpringTypeTables : call = [fn |-> "none", SpringType_objects |-> T]
    /\ event_bookings = <<>>
    /\ company_booking_email = [b \in Browsers |-> NoEmail]
    /\ ev = NoEvent

ResolveSize(shoe_size_str) ==
    /\ call' = [fn |-> "get_size_category_from_shoe_size",
                SpringType_objects |-> call.SpringType_objects,
                shoe_size_str |-> shoe_size_str,
                result |-> get_size_category_from_shoe_size(shoe_size_str)]
    /\ UNCHANGED <<now, cards, atts, is_active, reqs, gate, event_bookings,
                   company_booking_email, ev>>

ResolveSpring(weight) ==
    /\ \E key \in get_spring_type_from_weight(call.SpringType_objects, weight) :
          call' = [fn |-> "get_spring_type_from_weight",
                   SpringType_objects |-> call.SpringType_objects,
                   weight |-> weight, result |-> key]
    /\ UNCHANGED <<now, cards, atts, is_active, reqs, gate, event_bookings,
                   company_booking_email, ev>>

NextResolver ==
    \/ \E str \in ShoeSizeInputs : ResolveSize(str)
    \/ \E weight \in Weights : ResolveSpring(weight)

SpecResolver == InitResolver /\ [][NextResolver]_vars

(***************************************************************************)
(* Cancellations next to what makes them differ: time passing, bookings    *)
(* with and without a card, and the admin's change form, on which the      *)
(* credit-consumed flag of a past or future booking is set and cleared.    *)
(***************************************************************************)
\* The change form saved with only the checkbox changed.
AdminCheckbox(id, new_flag) ==
    /\ id \in DOMAIN atts
    /\ AdminChange(id, atts[id].card, new_flag)

NextCancel ==
    \/ \E t \in LedgerTimes : Tick(t)
    \/ \E m \in LedgerMembers, s \in Schedules, dt \in Dates, use_card \in BOOLEAN :
          BookSession(m, s, dt, use_card)
    \/ \E id \in Ids, f \in BOOLEAN : AdminCheckbox(id, f)
    \/ \E m \in LedgerMembers, id \in Ids : CancelBooking(m, id)

SpecCancel == Init /\ [][NextCancel]_vars

(***************************************************************************)
(* The bulk charge action served by two workers: the rows of the card's    *)
(* owner are imported with the card linked, before and after the session.  *)
(***************************************************************************)
CardOwners == {CardOwner[c] : c \in Cards}

NextCharge ==
    \/ \E t \in LedgerTimes : Tick(t)
    \/ \E m \in CardOwners, dt \in Dates, title \in Titles : ImportCsvRow(m, dt, title, TRUE)
    \/ \E w \in Workers, id \in Ids : ChargeRead(w, id)
    \/ \E w \in Workers : ChargeWrite(w)

SpecCharge == Init /\ [][NextCharge]_vars

(***************************************************************************)
(* The staff's charge actions and the deletions alone, on bookings of the  *)
(* card's owner made with the card linked; nobody edits the card itself.   *)
(***************************************************************************)
NextStaff ==
    \/ \E t \in LedgerTimes : Tick(t)
    \/ \E m \in CardOwners, s \in Schedules, dt \in Dates : BookSession(m, s, dt, TRUE)
    \/ \E id \in Ids, f \in BOOLEAN : AdminCheckbox(id, f)
    \/ \E sel \in SUBSET Ids : ChargeManually(sel)
    \/ \E dry_run \in BOOLEAN : ChargeCommand(dry_run)
    \/ \E id \in Ids : AdminDelete(id)
    \/ \E m \in CardOwners, id \in Ids : CancelBooking(m, id)

SpecStaff == Init /\ [][NextStaff]_vars

(***************************************************************************)
(* bookings/event_views.py: the guest pages of the business events.  One   *)
(* company keeps the default allow_multiple_bookings = False, the other    *)
(* allows several bookings; every event is active and still to come.       *)
(***************************************************************************)
Companies == {"co1", "co2"}
allow_multiple_bookings == [c \in Companies |-> c = "co2"]
company_is_active == [c \in Companies |-> TRUE]

Events == {"E1", "E2", "E3", "E4"}
event_company == [e \in Events |-> IF e \in {"E1", "E4"} THEN "co1" ELSE "co2"]
event_datetime == [e \in Events |-> 72]
event_is_active == [e \in Events |-> TRUE]
event_max_capacity == [e \in Events |-> NoMax]

\* What guests type into the form.
Emails == {"a@x.be", "b@x.be"}
GuestShoeSizes == {<<"3", "8">>}
GuestWeights == {75}

\* The spring classes configured for the events.
SpringTypes == {[name |-> "Standaard", max_weight |-> 80, is_active |-> TRUE],
                [name |-> "HD", max_weight |-> NoMax, is_active |-> TRUE]}

\* Largest number of BusinessEventBooking rows.
MaxEventBookings == 2

EventRows == {event_bookings[i] : i \in 1..Len(event_bookings)}

\* BusinessEvent.is_in_future, bookings_count, get_booked_count_for_size.
event_is_in_future(e) == event_datetime[e] > now

bookings_count(e) == Cardinality({i \in 1..Len(event_bookings) : event_bookings[i].event = e})

get_booked_count_for_size(e, size_category) ==
    Cardinality({i \in 1..Len(event_bookings) :
                    event_bookings[i].event = e
                    /\ event_bookings[i].size_category = size_category})

\* BusinessEvent.get_available_spots: the loop over the four sizes, then the
\* event's maximum.
get_available_spots(e) ==
    LET per_size == [size \in SIZE_CHOICES |->
                        Max(0, get_capacity_for_size(size) - get_booked_count_for_size(e, size))]
        total_available == SumOver(per_size, SIZE_CHOICES)
    IN  IF event_max_capacity[e] # NoMax
        THEN Min(total_available, Max(0, event_max_capacity[e] - bookings_count(e)))
        ELSE total_available

\* BusinessEvent.can_book
event_can_book(e) == event_is_active[e] /\ event_is_in_future(e) /\ get_available_spots(e) > 0

\* Category resolution for a guest, as the design describes it: the active size
\* class containing the shoe size, the spring class for the weight, and the
\* active category of that pair; none when a step finds nothing.
get_category_from_shoe_size_and_weight(shoe_size_str, weight) ==
    LET sizes == {t \in SizeTypes : /\ t.is_active /\ IntParses(shoe_size_str)
                                    /\ t.min_shoe_size <= IntValue(shoe_size_str)
                                    /\ IntValue(shoe_size_str) <= t.max_shoe_size}
        active == {t \in SpringTypes : t.is_active}
        enough == {t \in active : t.max_weight # NoMax /\ t.max_weight >= weight}
        springs == IF enough # {}
                   THEN {t \in enough : \A u \in enough : t.max_weight <= u.max_weight}
                   ELSE {t \in active : t.max_weight = NoMax}
        match == {k \in EquipmentCategories :
                     /\ k.is_active
                     /\ \E t \in sizes : k.size_type = t.name
                     /\ \E t \in springs : k.spring_type = t.name}
    IN  IF match = {} THEN NoCat ELSE (CHOOSE k \in match : TRUE).name

\* The event's test for one category, as the design describes it: active, still
\* to come, and available equipment of the category left after the event's
\* bookings of that category, within the event's maximum.
can_book_for_category(e, category) ==
    LET size == (CHOOSE k \in EquipmentCategories : k.name = category).size_type
        booked == Cardinality({i \in 1..Len(event_bookings) :
                                  event_bookings[i].event = e
                                  /\ event_bookings[i].equipment_category = category})
        available == Max(0, get_capacity_for_size(size) - booked)
        spots == IF event_max_capacity[e] # NoMax
                 THEN Min(available, Max(0, event_max_capacity[e] - bookings_count(e)))
                 ELSE available
    IN  event_is_active[e] /\ event_is_in_future(e) /\ spots > 0

\* form.save(commit=False), booking.event, booking.equipment_category: the row
\* the pages insert; size_category keeps its default, the empty string.
NewEventBooking(e, email, category) ==
    [event |-> e, email |-> email, equipment_category |-> category, size_category |-> ""]

GuestAnswer(op, outcome) == ev' = Event(op, outcome, 0, Nobody, <<>>, <<>>)

\* event_booking_page, a POST with a valid form and create_account not ticked.
\* request.session['event_booking_id'] is read by the confirmation page only.
EventBookingPage(b, e, email, shoe_size_str, weight) ==
    /\ LET category == get_category_from_shoe_size_and_weight(shoe_size_str, weight)
       IN  IF ~event_is_in_future(e) \/ ~event_is_active[e] \/ ~event_can_book(e)
           THEN GuestAnswer("event_booking_page", "Closed") /\ UNCHANGED event_bookings
           ELSE IF \E r \in EventRows : r.event = e /\ r.email = email
           THEN GuestAnswer("event_booking_page", "Duplicate") /\ UNCHANGED event_bookings
           ELSE IF category = NoCat \/ ~can_book_for_category(e, category)
           THEN GuestAnswer("event_booking_page", "NoEquipment") /\ UNCHANGED event_bookings
           ELSE /\ Len(event_bookings) < MaxEventBookings
                /\ event_bookings' = Append(event_bookings, NewEventBooking(e, email, category))
                /\ GuestAnswer("event_booking_page", "created")
    /\ UNCHANGED <<now, cards, atts, is_active, reqs, gate, call, company_booking_email>>

\* Company.get_active_events
get_active_events(c) ==
    {e \in Events : event_company[e] = c /\ event_is_active[e] /\ event_is_in_future(e)}

\* company_events_page, a POST with event_id and a valid form, create_account
\* not ticked.
CompanyEventsPage(b, c, event_id, email, shoe_size_str, weight) ==
    LET active_events == get_active_events(c)
        user_email == company_booking_email[b]
        booked_event_ids == IF user_email # NoEmail
                            THEN {r.event : r \in {r \in EventRows :
                                                      event_company[r.event] = c
                                                      /\ r.email = user_email}}
                            ELSE {}
        category == get_category_from_shoe_size_and_weight(shoe_size_str, weight)
        rejected(outcome) == /\ GuestAnswer("company_events_page", outcome)
                             /\ UNCHANGED <<event_bookings, company_booking_email>>
    IN  /\ IF ~company_is_active[c] \/ active_events = {}
           THEN rejected("Closed")
           ELSE IF event_id \notin active_events
           THEN rejected("NoEventSelected")
           ELSE IF /\ \E r \in EventRows : r.event = event_id /\ r.email = email
                   /\ (~allow_multiple_bookings[c] \/ event_id \in booked_event_ids)
           THEN rejected("Duplicate")
           ELSE IF ~allow_multiple_bookings[c] /\ booked_event_ids # {}
           THEN rejected("AlreadyBookedCompany")
           ELSE IF category = NoCat \/ ~can_book_for_category(event_id, category)
           THEN rejected("NoEquipment")
           ELSE /\ Len(event_bookings) < MaxEventBookings
                /\ event_bookings' = Append(event_bookings,
                                            NewEventBooking(event_id, email, category))
                /\ company_booking_email' = [company_booking_email EXCEPT ![b] = email]
                /\ GuestAnswer("company_events_page", "created")
        /\ UNCHANGED <<now, cards, atts, is_active, reqs, gate, call>>

NextEvents ==
    \/ \E b \in Browsers, e \in Events, email \in Emails,
          shoe \in GuestShoeSizes, weight \in GuestWeights :
          EventBookingPage(b, e, email, shoe, weight)
    \/ \E b \in Browsers, c \in Companies, e \in Events, email \in Emails,
          shoe \in GuestShoeSizes, weight \in GuestWeights :
          CompanyEventsPage(b, c, e, email, shoe, weight)

SpecEvents == Init /\ [][NextEvents]_vars

(***************************************************************************)
(* equipment/assignment.py get_category_for_size_and_spring, asked with    *)
(* the size category of a shoe size and the spring type key of a weight,   *)
(* for every table of categories the admin can configure over the size     *)
(* classes M and L and the two spring classes.                             *)
(***************************************************************************)
CategorySizes == {"M", "L"}

CategoryName(size, spring) ==
    CASE size = "M" /\ spring = "Standaard" -> "Medium"
      [] size = "M" /\ spring = "HD" -> "Medium HD"
      [] size = "L" /\ spring = "Standaard" -> "Large"
      [] OTHER -> "Large HD"

CategoryRows ==
    {[name |-> CategoryName(size, t.name), size_type |-> size, spring_type |-> t.name,
      is_active |-> a] : size \in CategorySizes, t \in SpringTypes, a \in BOOLEAN}

\* EquipmentCategory.name is unique.
CategoryTables == {K \in SUBSET CategoryRows : \A k, l \in K : k.name = l.name => k = l}

\* get_category_for_size_and_spring on the table EquipmentCategory_objects; the
\* name of the category found, NoCat for None.
get_category_for_size_and_spring(EquipmentCategory_objects, size_category, spring_type_key) ==
    IF size_category = NoCat THEN NoCat
    ELSE LET size_type_objs == {t \in SizeTypes : t.is_active /\ t.name = size_category}
             spring_name == resolve_spring_type_name(spring_type_key)
             spring_type_objs == {t \in SpringTypes :
                                     t.is_active /\ lower(t.name) = lower(spring_name)}
             found == {k \in EquipmentCategory_objects :
                          /\ k.is_active
                          /\ \E t \in size_type_objs : k.size_type = t.name
                          /\ \E t \in spring_type_objs : k.spring_type = t.name}
         IN  IF size_type_objs = {} \/ spring_type_objs = {} \/ found = {} THEN NoCat
             ELSE (CHOOSE k \in found : TRUE).name

CategoryShoeSizes == {<<"3", "8">>, <<"4", "4">>}
CategoryWeights == {75, 90}

InitCategory ==
    /\ now = 0
    /\ cards = [c \in Cards |-> [total |-> MaxSessions, used |-> 0, status |-> "active"]]
    /\ atts = <<>>
    /\ is_active = [s \in AllSchedules |-> TRUE]
    /\ reqs = {}
    /\ gate = NoGate
    /\ \E K \in CategoryTables : call = [fn |-> "none", EquipmentCategory_objects |-> K]
    /\ event_bookings = <<>>
    /\ company_booking_email = [b \in Browsers |-> NoEmail]
    /\ ev = NoEvent

\* The size category and the spring type key as get_member_equipment_requirements
\* computes them for a member without override, then the category lookup.
ResolveCategoryFor(shoe_size_str, weight) ==
    /\ \E key \in get_spring_type_from_weight(SpringTypes, weight) :
          call' = [fn |-> "get_category_for_size_and_spring",
                   EquipmentCategory_objects |-> call.EquipmentCategory_objects,
                   shoe_size_str |-> shoe_size_str, weight |-> weight,
                   result |-> get_category_for_size_and_spring(
                                  call.EquipmentCategory_objects,
                                  get_size_category_from_shoe_size(shoe_size_str), key)]
    /\ UNCHANGED <<now, cards, atts, is_active, reqs, gate, event_bookings,
                   company_booking_email, ev>>

NextCategory ==
    \E shoe \in CategoryShoeSizes, weight \in CategoryWeights : ResolveCategoryFor(shoe, weight)

SpecCategory == InitCategory /\ [][NextCategory]_vars

(***************************************************************************)
(* Requests of members and guests whose attributes resolve to no category, *)
(* next to requests of those whose attributes do.                          *)
(***************************************************************************)
\* A shoe size the form accepts (25 to 55) that no active size class contains.
UnmatchedShoeSizes == {<<"4", "7">>}
SizedMembers == {"m1"}
GuestEvents == {"E1"}

NextNoCategory ==
    \/ \E t \in Times : Tick(t)
    \/ \E m \in SizedMembers \cup UnsizedMembers, s \in Schedules, dt \in Dates :
          BookSession(m, s, dt, FALSE)
    \/ \E m \in SizedMembers \cup UnsizedMembers, id \in Ids : CancelBooking(m, id)
    \/ \E b \in Browsers, e \in GuestEvents, email \in Emails,
          shoe \in GuestShoeSizes \cup UnmatchedShoeSizes, weight \in GuestWeights :
          EventBookingPage(b, e, email, shoe, weight)

SpecNoCategory == Init /\ [][NextNoCategory]_vars

(***************************************************************************)
(* Properties of the credit ledger, checked under Spec.                    *)
(***************************************************************************)
Range(q) == {q[i] : i \in 1..Len(q)}

DeleteOps == {"cancel_booking", "admin_delete"}

\* The handlers that save a card row through SessionCard.save(): every handler
\* but the two changelist actions, which write with queryset.update().
SavesCard(e) == e.op \notin {"none", "mark_as_expired", "mark_as_active"}

CompletedIffExhausted(card) == (card.status = "completed") <=> (card.used >= card.total)

\* C2: after any ledger mutation (a charge, a return on deletion, any other
\* save of the card) the mutated card has status 'completed' if and only if
\* sessions_used >= total_sessions.
C2_CompletedIffExhausted ==
    [][\A c \in Cards :
          (SavesCard(ev') /\ cards'[c] # cards[c]) => CompletedIffExhausted(cards'[c])]_vars

\* C3: deleting a booking applies the return to its card if and only if a
\* debit was applied to that card for that booking; deleting a booking that
\* was never debited leaves every card unchanged.
C3_ReturnIffDebited ==
    [][\A id \in DOMAIN atts :
          (ev'.op \in DeleteOps /\ ev'.att = id /\ id \notin DOMAIN atts')
          => /\ (ev'.returns # <<>>) <=> (atts[id].debit # NoCard)
             /\ Len(ev'.returns) <= 1
             /\ \A i \in 1..Len(ev'.returns) :
                   ev'.returns[i].att = id /\ ev'.returns[i].card = atts[id].debit
             /\ (atts[id].debit = NoCard => cards' = cards)]_vars

\* The rule of use(card) on one charge attempt, from the stored card row before
\* the attempt to the stored row after it.
ObeysUseRule(e) ==
    IF e.before.status # "active" \/ sessions_remaining(e.before) = 0
    THEN e.after = e.before
    ELSE /\ e.after.used = e.before.used + 1
         /\ e.after.total = e.before.total
         /\ (e.after.status = "completed") <=> (e.after.used = e.after.total)
         /\ e.after.status \in {"active", "completed"}

\* C5: every charge attempt of every charge path (use_session, the bulk charge
\* action, the form checkbox, the charge command) fails on an invalid card and
\* leaves it unchanged, and otherwise increments sessions_used by exactly 1 and
\* sets 'completed' exactly when the new sessions_used reaches total_sessions.
C5_ChargePathsObeyUseRule == \A e \in Range(ev.charges) : ObeysUseRule(e)

\* C6 as stated: return sets sessions_used to max(0, sessions_used - 1); a
\* 'completed' card with sessions remaining after the decrement becomes
\* 'active'; in all other cases the status is left as it was.
C6_ReturnLeavesOtherStatus ==
    \A e \in Range(ev.returns) :
        /\ e.after.used = Max(0, e.before.used - 1)
        /\ e.after.total = e.before.total
        /\ e.after.status = IF e.before.status = "completed" /\ sessions_remaining(e.after) > 0
                            THEN "active" ELSE e.before.status

\* C6, amended: as above, except that a card whose sessions_used is still at
\* or above total_sessions after the decrement is saved as 'completed',
\* whatever its status was.
C6_ReturnRule ==
    \A e \in Range(ev.returns) :
        /\ e.after.used = Max(0, e.before.used - 1)
        /\ e.after.total = e.before.total
        /\ e.after.status = IF e.before.status = "completed" /\ sessions_remaining(e.after) > 0
                            THEN "active"
                            ELSE IF e.after.used >= e.after.total THEN "completed"
                            ELSE e.before.status

\* A deletion returned a session to an 'expired' card that stays exhausted: the
\* card comes out 'completed'.  Another reactivated a 'completed' card.
C6_Witness ==
    /\ ev.op \in DeleteOps
    /\ \E e \in Range(ev.returns) :
          /\ e.before.status = "expired"
          /\ e.after.status = "completed"
          /\ e.after.used = e.before.used - 1
          /\ cards[e.card] = e.after

\* The last handler debited card e.card for booking id, and the card row is
\* still as that debit left it.
Charged(e, id) ==
    /\ e.att = id
    /\ id \in DOMAIN atts
    /\ atts[id].card = e.card
    /\ atts[id].flag
    /\ e.before.status = "active"
    /\ e.after.used = e.before.used + 1
    /\ cards[e.card] = e.after

\* C7: when a use has succeeded on a card and the charged booking is deleted
\* immediately afterwards, the return restores sessions_used to its value
\* before the use, and a status the use had flipped to 'completed' is 'active'
\* again.
C7_ReturnAfterUseRestores ==
    [][\A id \in DOMAIN atts : \A e \in Range(ev.charges) :
          (Charged(e, id) /\ ev'.op \in DeleteOps /\ ev'.att = id /\ id \notin DOMAIN atts')
          => /\ cards'[e.card].used = e.before.used
             /\ (e.after.status = "completed" => cards'[e.card].status = "active")
             /\ cards'[e.card] = e.before]_vars

\* The deletion of a charged booking has just given the session back: the card
\* was 'completed' with nothing remaining and is 'active' with one session.
C7_Witness ==
    /\ ev.op \in DeleteOps
    /\ Len(ev.returns) = 1
    /\ ev.returns[1].att = ev.att
    /\ ev.returns[1].before.status = "completed"
    /\ ev.returns[1].before.used = ev.returns[1].before.total
    /\ ev.returns[1].after.status = "active"
    /\ ev.returns[1].after.used = ev.returns[1].before.used - 1
    /\ sessions_remaining(cards[ev.returns[1].card]) = 1

\* The handlers that create or save a booking without being a charge action:
\* the member's booking, the CSV import, and the admin form saved with the
\* credit-consumed checkbox as it was.
CreatesOrSaves(e) ==
    \/ e.op \in {"book_session", "csv_import"}
    \/ (e.op = "save_model" /\ e.outcome = "saved")

\* C8: creating or saving a booking, with or without a card, never changes a
\* card's sessions_used or status and never sets the booking's credit-consumed
\* flag.
C8_SavingNeverDebits ==
    [][CreatesOrSaves(ev')
       => /\ cards' = cards
          /\ \A id \in DOMAIN atts' :
                atts'[id].flag => (id \in DOMAIN atts /\ atts[id].flag)]_vars

(***************************************************************************)
(* Properties of the member's bookings.                                    *)
(***************************************************************************)
category_of(m) == get_size_category_from_shoe_size(shoe_size[m])

Rejections == {"NotOpen", "CapacityExhausted", "Duplicate"}

\* For every occurrence and category, no more bookings than available equipment.
WithinCapacity ==
    \A dt \in Dates, title \in Titles, c \in SIZE_CHOICES :
        booked_count(dt, title, c) <= get_capacity_for_size(c)

\* An attempt made when the member's category has no availability left creates
\* no booking and changes nothing; past the window gate, which the view tests
\* first, its answer is the capacity-exhausted one.
FullAttemptRejected ==
    \A m \in Members, s \in Schedules, dt \in Dates, use_card \in BOOLEAN :
        (BookSession(m, s, dt, use_card)
         /\ get_available_capacity_for_size(s, dt, category_of(m)) = 0)
        => /\ atts' = atts /\ cards' = cards
           /\ ev'.op = "book_session" /\ ev'.outcome \in Rejections
           /\ (is_booking_open(s, dt) => ev'.outcome = "CapacityExhausted")

UniqueBookings ==
    \A i, j \in DOMAIN atts :
        (atts[i].member = atts[j].member /\ atts[i].date = atts[j].date
         /\ atts[i].title = atts[j].title) => i = j

\* A request for a triple that is already booked changes nothing; past the
\* gate and the capacity test, which the view makes first, its answer is the
\* duplicate one.
DuplicateCheckRejected ==
    \A w \in Workers, m \in Members, s \in Schedules, dt \in Dates, use_card \in BOOLEAN :
        (BookCheck(w, m, s, dt, use_card) /\ violates_unique(atts, m, dt, sched_title[s]))
        => /\ atts' = atts /\ cards' = cards /\ reqs' = reqs
           /\ ev'.op = "book_session" /\ ev'.outcome \in Rejections
           /\ ((is_booking_open(s, dt)
                /\ get_available_capacity_for_size(s, dt, category_of(m)) > 0)
               => ev'.outcome = "Duplicate")

\* A request that passed its checks while an identical one was in flight is
\* refused by the store at its insert, and changes nothing.
DuplicateInsertRejected ==
    \A w \in Workers : \A r \in reqs :
        (BookInsert(w) /\ r.worker = w
         /\ violates_unique(atts, r.member, r.session_datetime, sched_title[r.schedule]))
        => /\ atts' = atts /\ cards' = cards
           /\ ev'.op = "book_session" /\ ev'.outcome = "Error"

C9_BookedOnlyIfPermitted ==
    [][\A m \in Members, s \in Schedules, dt \in Dates, use_card \in BOOLEAN :
          (BookSession(m, s, dt, use_card) /\ ev'.outcome = "created")
          => /\ get_available_capacity_for_size(s, dt, category_of(m)) > 0
             /\ is_booking_open(s, dt)
             /\ is_active[s]]_vars

(***************************************************************************)
(* Properties of the booking window gate, checked under SpecGate.          *)
(***************************************************************************)
\* The gate's answer is the conjunction of the three tests, with both window
\* boundaries inclusive and the future test strict.
GateIsThreeTests ==
    gate.called =>
        (gate.result <=> /\ now < gate.session_datetime
                         /\ now >= gate.session_datetime - gate.opens_days_before * 24
                         /\ now <= gate.session_datetime - gate.closes_hours_before)

\* C10: the gate returns true for an occurrence at t if and only if now < t,
\* now >= t - opens_days_before days and now <= t - closes_hours_before hours,
\* and calling it changes no state.
C10_GateIsThreeTests ==
    /\ []GateIsThreeTests
    /\ [][gate' # gate => UNCHANGED <<now, cards, atts, is_active, reqs>>]_vars

\* The gate was asked one hour before an occurrence that closes two hours
\* before, inside the opening window, and answered closed.
C10_Witness ==
    /\ gate.called
    /\ gate.closes_hours_before = 2
    /\ gate.opens_days_before = 1
    /\ now = gate.session_datetime - 1
    /\ ~gate.result

(***************************************************************************)
(* Properties of the capacity queries, checked under SpecCapacity.         *)
(***************************************************************************)
\* Items in maintenance and broken items contribute nothing.
available_equipment(c) ==
    Cardinality({e \in Equipment : equipment_size[e] = c
                                   /\ equipment_status[e] \notin {"maintenance", "broken"}})

\* The bookings of an occurrence (date-time and title), of one category or of all.
existing_bookings(dt, title, c) ==
    Cardinality({i \in DOMAIN atts : atts[i].date = dt /\ atts[i].title = title
                                      /\ atts[i].cat = c})

total_bookings(dt, title) ==
    Cardinality({i \in DOMAIN atts : atts[i].date = dt /\ atts[i].title = title})

PerCategory(dt, title, c) == Max(0, available_equipment(c) - existing_bookings(dt, title, c))

\* C11: the per-category availability of an occurrence is the available equipment
\* of the category (maintenance and broken items not counted) minus the bookings
\* of that category for the occurrence, floored at zero, and capped by the
\* schedule's max_capacity minus all bookings of the occurrence (floored at zero)
\* when max_capacity is set.
C11_PerCategoryAvailability ==
    [][\A s \in AllSchedules, dt \in CapacityDates, c \in SIZE_CHOICES :
          CheckCapacityForSize(s, dt, c)
          => LET per == PerCategory(dt, sched_title[s], c)
                 cap == Max(0, max_capacity[s] - total_bookings(dt, sched_title[s]))
             IN  call'.result = IF max_capacity[s] # NoMax THEN Min(per, cap) ELSE per]_vars

\* The query about category M of the capped schedule, when the cap (not the two
\* available items of that category, one more being broken) decides the answer.
C11_Witness ==
    /\ call.fn = "get_available_capacity_for_size"
    /\ call.schedule \in CappedSchedules
    /\ call.size_category = "M"
    /\ total_bookings(call.session_datetime, sched_title[call.schedule]) = 0
    /\ call.result = 1

\* The size categories of the active equipment categories.
ActiveCategories == {c.size_type : c \in {k \in EquipmentCategories : k.is_active}}

\* C12: the aggregate availability of an occurrence is the sum, over the active
\* equipment categories, of the per-category availability (available equipment
\* minus bookings, floored at zero), capped by max_capacity minus all bookings of
\* the occurrence (floored at zero) when max_capacity is set.
C12_AggregateAvailability ==
    [][\A s \in AllSchedules, dt \in CapacityDates :
          CheckCapacity(s, dt)
          => LET sum == SumOver([c \in ActiveCategories |-> PerCategory(dt, sched_title[s], c)],
                                ActiveCategories)
                 cap == Max(0, max_capacity[s] - total_bookings(dt, sched_title[s]))
             IN  call'.result = IF max_capacity[s] # NoMax THEN Min(sum, cap) ELSE sum]_vars

(***************************************************************************)
(* Properties of the occurrence expander, checked under SpecOccurrence.    *)
(***************************************************************************)
InWindow(schedule, d) ==
    /\ d >= schedule.start_date
    /\ schedule.end_date # NoDate => d <= schedule.end_date

\* C13: the expander returns None or a date-time whose date is on the schedule's
\* weekday, not before start_date and not after end_date when end_date is set,
\* also when the result was clamped forward to the start of the validity window.
C13_OccurrenceOnWeekdayInWindow ==
    (call.fn = "get_next_occurrence" /\ call.result # NoDate)
    => /\ weekday_of(date_of(call.result)) = call.schedule.weekday
       /\ InWindow(call.schedule, date_of(call.result))

\* The dates the expander may answer with: on the weekday, inside the window,
\* not before the reference date.
Candidates(schedule, from_date) ==
    {d \in from_date..(Max(from_date, schedule.start_date) + DaysPerWeek) :
        weekday_of(d) = schedule.weekday /\ InWindow(schedule, d)}

\* C14: the expander returns the earliest date on or after the reference date
\* that is on the schedule's weekday and inside the validity window, at the
\* schedule's start time, and None exactly when there is no such date.
C14_EarliestOccurrence ==
    call.fn = "get_next_occurrence"
    => LET cand == Candidates(call.schedule, call.from_date)
       IN  IF cand = {} THEN call.result = NoDate
           ELSE call.result = combine(CHOOSE d \in cand : \A e \in cand : d <= e,
                                      call.schedule.start_time)

\* C15: the expander changes no state, answers the same for the same reference
\* date, never answers earlier for a later reference date, and once it answered
\* None it answers None for every later reference date.
C15_ExpanderMonotone ==
    /\ [][call' # call => UNCHANGED <<now, cards, atts, is_active, reqs, event_bookings,
                                      company_booking_email>>]_vars
    /\ [][(call.fn = "get_next_occurrence" /\ call'.fn = "get_next_occurrence")
          => /\ call'.from_date = call.from_date => call'.result = call.result
             /\ call.from_date <= call'.from_date
                => /\ call.result = NoDate => call'.result = NoDate
                   /\ call'.result # NoDate => call'.result >= call.result]_vars

\* A reference date more than a week before start_date: the answer is the
\* clamped one, the start of the validity window.
C15_Witness ==
    /\ call.fn = "get_next_occurrence"
    /\ call.from_date + DaysPerWeek < call.schedule.start_date
    /\ call.result = combine(call.schedule.start_date, call.schedule.start_time)

(***************************************************************************)
(* Properties of category resolution, checked under SpecOverride.          *)
(***************************************************************************)
\* The size category of an equipment category, by its name.
size_of_category(name) == (CHOOSE k \in EquipmentCategories : k.name = name).size_type

\* C16: for a member with an override category, category resolution returns that
\* category, and the member's booking is tested against the capacity of that
\* category: it is refused for capacity exactly when the window is open and the
\* override category has no seat left, and a booking made is of that category.
C16_OverrideShortCircuits ==
    /\ [][\A m \in Members :
             (ResolveCategory(m) /\ override_category[m] # NoCat)
             => call'.result = override_category[m]]_vars
    /\ [][\A m \in Members, s \in Schedules, dt \in Dates :
             (BookSession(m, s, dt, FALSE) /\ override_category[m] # NoCat)
             => LET c == size_of_category(override_category[m])
                IN  /\ ev'.outcome = "CapacityExhausted"
                       <=> /\ is_booking_open(s, dt)
                           /\ get_available_capacity_for_size(s, dt, c) <= 0
                    /\ ev'.outcome = "created" => atts'[ev'.att].cat = c]_vars

(***************************************************************************)
(* Properties of the two resolvers, checked under SpecResolver.            *)
(***************************************************************************)
\* The key names the class: through SPRING_TYPE_NAMES, compared without case.
Names(key, t) == lower(resolve_spring_type_name(key)) = lower(t.name)

ActiveSprings == {t \in call.SpringType_objects : t.is_active}
DefinedSprings == {t \in ActiveSprings : t.max_weight # NoMax}
SufficientSprings == {t \in DefinedSprings : t.max_weight >= call.weight}
UnlimitedSprings == {t \in ActiveSprings : t.max_weight = NoMax}

Smallest(rows) == {t \in rows : \A u \in rows : t.max_weight <= u.max_weight}

\* The part of the rule about a known weight: the smallest sufficient defined
\* maximum (a weight equal to the maximum is eligible), else the class with no
\* maximum.
KnownWeightRule ==
    IF SufficientSprings # {}
    THEN \E t \in Smallest(SufficientSprings) : Names(call.result, t)
    ELSE UnlimitedSprings # {} => \E t \in UnlimitedSprings : Names(call.result, t)

\* C17 as claimed: for a known weight the rule above; for an unknown weight (None
\* or zero, which the code does not tell apart) the active class with the
\* smallest defined maximum.
C17_SpringByWeight ==
    call.fn = "get_spring_type_from_weight"
    => IF call.weight \in {NoWeight, 0}
       THEN DefinedSprings # {} => \E t \in Smallest(DefinedSprings) : Names(call.result, t)
       ELSE KnownWeightRule

\* C17 (amended): for a known weight the resolver selects the active class with
\* the smallest defined maximum weight that is >= the weight (a weight equal to
\* the maximum is eligible), and when no class has a sufficient defined maximum
\* the active class with no maximum (the first by name); for an unknown or zero
\* weight it answers the key 'standard', whatever classes are configured.
C17_SpringRule ==
    call.fn = "get_spring_type_from_weight"
    => IF call.weight \in {NoWeight, 0}
       THEN call.result = "standard"
       ELSE /\ KnownWeightRule
            /\ (SufficientSprings = {} /\ UnlimitedSprings # {})
               => call.result = lower(FirstByName(UnlimitedSprings).name)

\* Weight 90 with Standaard up to 80 and HD without a maximum: the answer is HD.
C17_Witness ==
    /\ call.fn = "get_spring_type_from_weight"
    /\ call.weight = 90
    /\ call.SpringType_objects =
          {[name |-> "Standaard", max_weight |-> 80, is_active |-> TRUE],
           [name |-> "HD", max_weight |-> NoMax, is_active |-> TRUE]}
    /\ call.result = "hd"

\* The active size classes whose inclusive range contains the parsed shoe size.
Covering(str) ==
    {t \in SizeTypes : /\ t.is_active
                       /\ IntParses(str)
                       /\ t.min_shoe_size <= IntValue(str)
                       /\ IntValue(str) <= t.max_shoe_size}

\* C18 as claimed: the covering active size class, and none when the shoe size
\* is unparseable or no active size class covers it.
C18_SizeClassOrNone ==
    call.fn = "get_size_category_from_shoe_size"
    => IF Covering(call.shoe_size_str) = {} THEN call.result = NoCat
       ELSE \E t \in Covering(call.shoe_size_str) : call.result = t.name

\* C18 (amended): size-class resolution returns the active size class whose
\* inclusive range contains the parsed shoe size; it returns none when the shoe
\* size is empty or unparseable; for a parsed size no active class covers it
\* returns the hardcoded category: S up to 36, M up to 41, L up to 46, XL above.
C18_SizeClassOrFallback ==
    call.fn = "get_size_category_from_shoe_size"
    => LET str == call.shoe_size_str
       IN  IF ~IntParses(str) THEN call.result = NoCat
           ELSE IF Covering(str) # {} THEN \E t \in Covering(str) : call.result = t.name
           ELSE /\ IntValue(str) <= 36 => call.result = "S"
                /\ (37 <= IntValue(str) /\ IntValue(str) <= 41) => call.result = "M"
                /\ (42 <= IntValue(str) /\ IntValue(str) <= 46) => call.result = "L"
                /\ IntValue(str) >= 47 => call.result = "XL"

\* Shoe size 47, which only the switched-off XL class covers, resolves to XL.
C18_Witness ==
    /\ call.fn = "get_size_category_from_shoe_size"
    /\ call.shoe_size_str = <<"4", "7">>
    /\ call.result = "XL"

(***************************************************************************)
(* Properties of the cancellation, checked under SpecCancel.               *)
(***************************************************************************)
\* A card after one session was given back: one use less (never below zero),
\* a completed card with a session left is active again.
Returned(card) ==
    LET used == Max(0, card.used - 1)
        status == IF card.status = "completed" /\ card.total - used > 0
                  THEN "active" ELSE card.status
    IN  [total |-> card.total, used |-> used,
         status |-> IF used >= card.total THEN "completed" ELSE status]

\* C19: a cancellation is honoured only for a booking with the given id that
\* belongs to the requesting member; when the booking's session is not in the
\* future the request is rejected and the bookings and cards stay as they are;
\* otherwise the booking is deleted and, when its credit-consumed flag is set,
\* one session is returned to its card (and no other card changes).
C19_CancellationRule ==
    [][\A m \in LedgerMembers, id \in Ids :
          CancelBooking(m, id)
          => IF ~(id \in DOMAIN atts /\ atts[id].member = m)
             THEN ev'.outcome = "NotFound" /\ UNCHANGED <<atts, cards>>
             ELSE IF ~(atts[id].date > now)
             THEN ev'.outcome = "PastOccurrence" /\ UNCHANGED <<atts, cards>>
             ELSE /\ ev'.outcome = "deleted"
                  /\ atts' = Remove(atts, id)
                  /\ cards' = IF atts[id].flag /\ atts[id].card # NoCard
                              THEN [cards EXCEPT ![atts[id].card] = Returned(@)]
                              ELSE cards]_vars

\* A member asked to cancel a booking whose session has been: the request was
\* rejected, and the booking, whose credit was consumed, is still there.
C19_Witness ==
    /\ ev.op = "cancel_booking"
    /\ ev.outcome = "PastOccurrence"
    /\ \E id \in DOMAIN atts : atts[id].date <= now /\ atts[id].flag

(***************************************************************************)
(* Properties of the guest pages, checked under SpecEvents.                *)
(***************************************************************************)
UniqueGuestBookings ==
    \A i, j \in 1..Len(event_bookings) :
        (event_bookings[i].event = event_bookings[j].event
         /\ event_bookings[i].email = event_bookings[j].email) => i = j

AlreadyBooked(e, email) == \E r \in EventRows : r.event = e /\ r.email = email

RepeatAttemptRejected ==
    \A b \in Browsers, e \in Events, email \in Emails,
       shoe \in GuestShoeSizes, weight \in GuestWeights :
        /\ (EventBookingPage(b, e, email, shoe, weight) /\ AlreadyBooked(e, email))
           => event_bookings' = event_bookings
        /\ \A c \in Companies :
              (CompanyEventsPage(b, c, e, email, shoe, weight) /\ AlreadyBooked(e, email))
              => event_bookings' = event_bookings

\* C20: whatever guests do on the single-event page and the company page, from
\* any browser, an event never holds two bookings with the same e-mail address,
\* and an attempt to book an event again with the same e-mail address creates
\* no booking.
C20_OneBookingPerEmail == []UniqueGuestBookings /\ [][RepeatAttemptRejected]_vars

\* The guest with this e-mail address holds a booking of another event of the
\* event's company.
BookedElsewhere(e, email) ==
    \E r \in EventRows :
        r.email = email /\ r.event # e /\ event_company[r.event] = event_company[e]

OneEventPerGuest ==
    \A r, q \in EventRows :
        (r.email = q.email /\ event_company[r.event] = event_company[q.event]
         /\ ~allow_multiple_bookings[event_company[r.event]]) => r.event = q.event

LaterAttemptRejected ==
    \A b \in Browsers, e \in Events, email \in Emails,
       shoe \in GuestShoeSizes, weight \in GuestWeights :
        (/\ ~allow_multiple_bookings[event_company[e]]
         /\ BookedElsewhere(e, email)
         /\ \/ EventBookingPage(b, e, email, shoe, weight)
            \/ CompanyEventsPage(b, event_company[e], e, email, shoe, weight))
        => event_bookings' = event_bookings

\* C21: for a company that does not allow multiple bookings, a guest e-mail
\* address never holds bookings of two of the company's events, and an attempt
\* to book another event of the company with an e-mail address that has booked
\* one, from any browser and through either page, creates no booking.
C21_OneEventPerCompany == []OneEventPerGuest /\ [][LaterAttemptRejected]_vars

(***************************************************************************)
(* Properties of concurrent requests, checked under SpecConc.              *)
(***************************************************************************)
\* The insert of a request that passed its checks writes the booking whenever
\* the store's unique constraint lets it, whatever the availability of the
\* member's category has become since the checks.
InsertIgnoresAvailability ==
    \A w \in Workers : \A r \in reqs :
        (/\ BookInsert(w) /\ r.worker = w
         /\ ~violates_unique(atts, r.member, r.session_datetime, sched_title[r.schedule]))
        => /\ ev'.outcome = "created"
           /\ ev'.att \in DOMAIN atts' \ DOMAIN atts
           /\ atts'[ev'.att].member = r.member
           /\ atts'[ev'.att].cat = category_of(r.member)

\* A request is in flight only after its checks saw at least one seat left for
\* its member's category.
InFlightObservedSeat ==
    \A w \in Workers, m \in Members, sch \in Schedules, dt \in Dates, use_card \in BOOLEAN :
        (BookCheck(w, m, sch, dt, use_card) /\ reqs' # reqs)
        => get_available_capacity_for_size(sch, dt, category_of(m)) >= 1

\* C22: the availability check and the booking insert are not atomic: a request
\* is in flight once its checks observed a seat, and its insert writes the
\* booking without looking at the availability again, so that two requests of
\* different members for the same occurrence and category, made while one seat
\* remained, can both be inserted.
C22_CheckAndInsertNotAtomic ==
    [][InFlightObservedSeat]_vars /\ [][InsertIgnoresAvailability]_vars

\* Two requests of different members for the same occurrence and category, made
\* while one seat remained, have both been inserted: the category holds one
\* booking more than it has available equipment.
C22_Witness ==
    /\ reqs = {}
    /\ ev.op = "book_session" /\ ev.outcome = "created"
    /\ \E dt \in Dates :
          /\ get_capacity_for_size("L") = 1
          /\ booked_count(dt, "T1", "L") = get_capacity_for_size("L") + 1
          /\ \E i, j \in DOMAIN atts :
                /\ atts[i].member = "m2" /\ atts[j].member = "m3"
                /\ atts[i].date = dt /\ atts[j].date = dt

(***************************************************************************)
(* Properties of concurrent charges, checked under SpecCharge.             *)
(***************************************************************************)
\* A charge is in flight only after its validity test passed on the card it read.
ChargeInFlightPassedTest == \A r \in reqs : is_valid(r.observed)

\* The write of a charge in flight stores the sessions_used it read plus one,
\* whatever the card row holds by then, and sets the booking's flag.
ChargeWritesObserved ==
    \A w \in Workers : \A r \in reqs :
        (ChargeWrite(w) /\ r.worker = w)
        => /\ cards'[r.card].used = r.observed.used + 1
           /\ atts'[r.att].flag

\* C23: charging a card is check-then-act: a charge passes the validity test on
\* the card row it read, and later writes back the sessions_used it read plus
\* one and sets the booking's credit-consumed flag, without reading the card
\* again; two concurrent charges of two bookings on one card can so both pass
\* the test on the same sessions_used and both set their flag while
\* sessions_used is raised once.
C23_ChargeIsCheckThenAct == []ChargeInFlightPassedTest /\ [][ChargeWritesObserved]_vars

\* Two bookings on the one card both have the credit-consumed flag set, and the
\* card's sessions_used, 0 when they were read, is 1.
C23_Witness ==
    /\ reqs = {}
    /\ ev.op = "charge_sessions_manually"
    /\ \E i, j \in DOMAIN atts :
          /\ i # j
          /\ atts[i].card = atts[j].card /\ atts[i].card # NoCard
          /\ atts[i].flag /\ atts[j].flag
          /\ cards[atts[i].card].used = 1

(***************************************************************************)
(* Properties of the enumeration of occurrences, under SpecOccurrence.     *)
(***************************************************************************)
\* C24: calling the expander k times while the reference date advances by 7 days
\* each time yields, from any starting reference date, occurrences in strictly
\* increasing order (so pairwise distinct, none produced twice), and None only
\* from the call on at which the validity window has ended.
C24_EnumerationStrictlyIncreasing ==
    call.fn = "upcoming_occurrences"
    => \A i, j \in 1..num_weeks :
          i < j => /\ call.occurrences[i] = NoDate => call.occurrences[j] = NoDate
                   /\ call.occurrences[j] # NoDate => call.occurrences[i] < call.occurrences[j]

(***************************************************************************)
(* Properties of the schedule's maximum, checked under SpecCeiling.        *)
(***************************************************************************)
WithinMaximum ==
    \A s \in AllSchedules, dt \in Dates :
        max_capacity[s] # NoMax => total_bookings(dt, sched_title[s]) <= max_capacity[s]

AtMaximumRejected ==
    \A m \in Members, s \in AllSchedules, dt \in Dates :
        (/\ BookSession(m, s, dt, FALSE)
         /\ max_capacity[s] # NoMax
         /\ total_bookings(dt, sched_title[s]) >= max_capacity[s])
        => /\ atts' = atts
           /\ ev'.op = "book_session" /\ ev'.outcome \in Rejections
           /\ is_booking_open(s, dt) => ev'.outcome = "CapacityExhausted"

\* C25: for a schedule with max_capacity set, the bookings of one occurrence,
\* of every category and of none, never number more than max_capacity while
\* members book and cancel one request at a time; an attempt made when they
\* number max_capacity is rejected, also when the member's own category has
\* equipment left.
C25_MaximumIsCeiling == []WithinMaximum /\ [][AtMaximumRejected]_vars

\* The capped schedule holds its one booking, of category M (one more item of
\* which is available) or of no category, nothing else is booked, and the last
\* request was turned away as capacity-exhausted.
C25_Witness ==
    /\ ev.op = "book_session" /\ ev.outcome = "CapacityExhausted"
    /\ Cardinality(DOMAIN atts) = 1
    /\ \E id \in DOMAIN atts, s \in CappedSchedules :
          /\ atts[id].title = sched_title[s]
          /\ atts[id].cat \in {"M", NoCat}
          /\ is_booking_open(s, atts[id].date)
          /\ total_bookings(atts[id].date, sched_title[s]) = max_capacity[s]
          /\ \A c \in {"M", "L"} : PerCategory(atts[id].date, sched_title[s], c) > 0

(***************************************************************************)
(* Properties of requests without a category, checked under SpecNoCategory.*)
(***************************************************************************)
\* What the member view answers when the category is full, and the page a guest
\* gets when the event has no equipment of the category left.
CapacityAnswers == {"CapacityExhausted", "NoEquipment"}

MemberWithoutCategoryRejected ==
    \A m \in SizedMembers \cup UnsizedMembers, s \in Schedules, dt \in Dates :
        (BookSession(m, s, dt, FALSE) /\ category_of(m) = NoCat)
        => /\ atts' = atts
           /\ ev'.outcome \notin CapacityAnswers \cup {"created"}

GuestWithoutCategoryRejected ==
    \A b \in Browsers, e \in GuestEvents, email \in Emails,
       shoe \in GuestShoeSizes \cup UnmatchedShoeSizes, weight \in GuestWeights :
        (/\ EventBookingPage(b, e, email, shoe, weight)
         /\ get_category_from_shoe_size_and_weight(shoe, weight) = NoCat)
        => /\ event_bookings' = event_bookings
           /\ ev'.outcome \notin CapacityAnswers \cup {"created"}

\* C26: a booking attempt of a member or guest whose attributes resolve to no
\* equipment category creates no booking and is answered, before capacity is
\* looked at, with an outcome that is not the one given when capacity is
\* exhausted.
C26_NoCategoryDistinctOutcome ==
    [][MemberWithoutCategoryRejected]_vars /\ [][GuestWithoutCategoryRejected]_vars

(***************************************************************************)
(* Properties of the category lookup, checked under SpecCategory.          *)
(***************************************************************************)
\* The active spring classes that support a weight, and their order: by defined
\* maximum, ascending, the class without maximum last.
EligibleSprings(weight) ==
    {t \in SpringTypes : t.is_active /\ (t.max_weight = NoMax \/ t.max_weight >= weight)}

MoreSpecific(t, u) ==
    t.max_weight # NoMax /\ (u.max_weight = NoMax \/ t.max_weight < u.max_weight)

ActiveCategoryOf(K, size, t) ==
    {k \in K : k.is_active /\ k.size_type = size /\ k.spring_type = t.name}

\* C27: when several spring classes are weight-eligible, resolution tries them
\* in ascending order of maximum weight, the unlimited class last, and returns
\* the first active category found for the resolved size class; it returns none
\* only if no eligible spring class has an active category for that size class.
C27_FallbackThroughEligibleSprings ==
    call.fn = "get_category_for_size_and_spring"
    => LET K == call.EquipmentCategory_objects
           size == get_size_category_from_shoe_size(call.shoe_size_str)
           serving == {t \in EligibleSprings(call.weight) : ActiveCategoryOf(K, size, t) # {}}
       IN  IF serving = {} THEN call.result = NoCat
           ELSE \E t \in serving :
                   /\ \A u \in serving \ {t} : MoreSpecific(t, u)
                   /\ \E k \in ActiveCategoryOf(K, size, t) : call.result = k.name

(***************************************************************************)
(* Properties of the staff's charge actions, checked under SpecStaff.      *)
(***************************************************************************)
\* The debits applied to a card since it was sold with sessions_used = 0, and
\* the bookings linked to it whose credit-consumed flag is set.
DebitsApplied(c) == cards[c].used

FlaggedBookings(c) == {id \in DOMAIN atts : atts[id].card = c /\ atts[id].flag}

\* C28: for every card, whatever the staff's charge actions (bulk action, form
\* checkbox checked or unchecked, charge command, post-save handler) and the
\* deletions of bookings did, the debits applied to the card number exactly
\* the existing bookings linked to it whose credit-consumed flag is set: no
\* flag without a debit, no booking debited twice.
C28_DebitsMatchFlags ==
    \A c \in Cards : DebitsApplied(c) = Cardinality(FlaggedBookings(c))

(***************************************************************************)
(* Properties of the posted date-time, checked under SpecPosted.           *)
(***************************************************************************)
\* A date-time of the schedule: on its weekday, inside its validity window, at
\* its start time.
IsOccurrence(s, dt) ==
    /\ weekday_of(date_of(dt)) = sched_recurrence[s].weekday
    /\ InWindow(sched_recurrence[s], date_of(dt))
    /\ dt = combine(date_of(dt), sched_recurrence[s].start_time)

BookingsAreOccurrences ==
    \A id \in DOMAIN atts : \A s \in Schedules :
        atts[id].title = sched_title[s] => IsOccurrence(s, atts[id].date)

OtherDatetimeRejected ==
    \A m \in Members, s \in Schedules, dt \in PostedDatetimes :
        (BookSession(m, s, dt, FALSE) /\ ~IsOccurrence(s, dt))
        => atts' = atts /\ ev'.outcome \in Rejections

\* C29: every booking created for a schedule has a date-time the occurrence
\* expander can produce for it (on the schedule's weekday, inside [start_date,
\* end_date], at start_time), and a booking request carrying any other
\* date-time is rejected.
C29_BookingsAreOccurrences == []BookingsAreOccurrences /\ [][OtherDatetimeRejected]_vars

(***************************************************************************)
(* The returned spring class against the weight, checked under             *)
(* SpecResolver.                                                           *)
(***************************************************************************)
KnownWeight == call.fn = "get_spring_type_from_weight" /\ call.weight \notin {NoWeight, 0}

Supports(t, weight) == t.max_weight = NoMax \/ t.max_weight >= weight

\* The active classes the returned key names.
ReturnedSprings == {t \in ActiveSprings : Names(call.result, t)}

\* C30: whenever the resolver is given a known weight and returns a class, the
\* class supports the weight (its maximum is undefined or >= the weight); a
\* member heavier than every defined maximum is never assigned a class with a
\* defined maximum.
C30_ReturnedClassSupportsWeight ==
    KnownWeight
    => /\ \A t \in ReturnedSprings : Supports(t, call.weight)
       /\ (\A t \in DefinedSprings : t.max_weight < call.weight)
          => \A t \in ReturnedSprings : t.max_weight = NoMax

\* C30 (amended): whenever the resolver is given a known weight and some active
\* class supports it (a defined maximum >= the weight, or no maximum), the class
\* it returns supports the weight, and a member heavier than every defined
\* maximum is then assigned a class without a maximum; when every active class
\* has a defined maximum below the weight, it returns the active class with the
\* largest defined maximum.
C30_SupportedWhenSomeClassSupports ==
    KnownWeight
    => IF \E t \in ActiveSprings : Supports(t, call.weight)
       THEN /\ ReturnedSprings # {}
            /\ \A t \in ReturnedSprings : Supports(t, call.weight)
            /\ SufficientSprings = {} => \A t \in ReturnedSprings : t.max_weight = NoMax
       ELSE ActiveSprings # {}
            => /\ ReturnedSprings # {}
               /\ \A t \in ReturnedSprings : \A u \in ActiveSprings : u.max_weight <= t.max_weight

\* Weight 120 with Standaard up to 80 and Light up to 100: the answer is Light.
C30_Witness ==
    /\ call.fn = "get_spring_type_from_weight"
    /\ call.weight = 120
    /\ call.SpringType_objects =
          {[name |-> "Standaard", max_weight |-> 80, is_active |-> TRUE],
           [name |-> "Light", max_weight |-> 100, is_active |-> TRUE]}
    /\ call.result = "light"

====
